---- MODULE Spec2Model ----
(***************************************************************************)
(* Credential context and reconciliation engine of 4dn-cloud-infra         *)
(* (src/backup/4dn-cloud-infra/src/auto/utils/aws_context.py and aws.py).  *)
(*                                                                         *)
(* The module holds these state machines over one set of variables:        *)
(*   SpecCtx     AwsContext.establish_credentials                          *)
(*   SpecSecret  Aws.update_secret_key_value                               *)
(*   SpecKms     Aws.amend_kms_key_policy and the update-kms-policy driver *)
(*   SpecSg      Aws.find_security_group_rule / get_security_group_rules   *)
(*   SpecKey     Aws.create_user_access_key                                *)
(*   SpecProc    two AwsContext objects used by two threads of a process   *)
(*   SpecSecretExt  SpecSecret with a second writer of the secret          *)
(*   SpecDisplay the display functions: obfuscate, print_secret,           *)
(*               should_obfuscate, get_security_group_rule_display_value   *)
(*   SpecOp      the operations of one Aws object, call by call            *)
(*   SpecNest    scopes of AwsContext objects nested in one thread         *)
(* Each specification leaves the variables of the others untouched.        *)
(*                                                                         *)
(* Python values: strings are TLA+ strings, None is the reserved marker    *)
(* None below (never a member of a domain of program strings), a list is a *)
(* sequence, a dict with string keys is a function or a record.            *)
(***************************************************************************)
EXTENDS Integers, Sequences, FiniteSets, TLC

VARIABLES
    \* ---- AwsContext.establish_credentials
    environ,        \* os.environ restricted to the credential variables
    self,           \* the AwsContext object's fields
    fsDirs,         \* paths for which os.path.isdir is true
    fsFiles,        \* paths for which os.path.isfile is true
    boto3Default,   \* boto3.DEFAULT_SESSION
    saved_environ,  \* local of establish_credentials
    ctxPc,          \* position of the caller: idle, session, body, exited, raised
    environ0,       \* history: os.environ immediately before the current call
    bodyWrote,      \* history: the scope body has written os.environ itself
    \* ---- Aws.update_secret_key_value
    secretStore,    \* Secrets Manager: secret name to SecretString, for the secrets there are
    secPc,          \* idle, confirm, done
    secArgs,        \* arguments of the current call
    secLocal,       \* locals of the current call
    secResult,      \* what the call returned
    secTrace,       \* history of the current call: prompts asked, writes issued
    secPrev,        \* history: the previous completed call
    \* ---- KMS key policy
    kmsPolicy,      \* KMS: the stored key policy document
    iamRoles,       \* IAM: the role ARNs, in list_roles order
    kmsDoc,         \* key_policy_json of the current operation (mutated in place)
    kmsDoc0,        \* history: key_policy_json as passed in / as fetched
    kmsIn,          \* inputs of the current operation
    kmsOut,         \* outcome of the current operation
    kmsPc,          \* idle, confirm, done
    \* ---- security group rules
    sgGroups,       \* EC2: the rules of the one security group, Nothing if there is no group
    sgIn,           \* inputs of the current operation
    sgOut,          \* outcome of the current operation
    sgPc,           \* idle, done
    \* ---- Aws.create_user_access_key
    iamUsers,       \* IAM: the names of iam.users.all(), in order
    iamKeys,        \* IAM: the number of access keys of each of these users
    keyPc,          \* idle, existing (first confirmation), create (second), done
    keyIn,          \* arguments of the current call, and the user it resolved
    keyOut,         \* outcome of the current call: result, prompts, answers, keys created
    \* ---- two AwsContext objects in one process, one thread each
    procEnviron,    \* os.environ of the process
    procDefault,    \* boto3.DEFAULT_SESSION of the process
    procCtx,        \* the fields of each AwsContext object
    procPc,         \* position of each thread: idle, session, body, exited, raised
    procSaved,      \* saved_environ of each thread's call
    procYield,      \* the Credentials object of each thread's running scope
    procHeld,       \* the credentials attribute of each object (validate_utils)
    procAmbient,    \* history: os.environ before any scope
    procCalls,      \* history: calls of establish_credentials per object
    procResets,     \* history: the calls in which each object reset the default session
    procKeptAt,     \* history: the call in which each object's credentials were kept
    procActive,     \* history: the objects whose scope is active, in order of entry
    procOwner,      \* history: the object whose scope environment os.environ is (None: ambient)
    procSavedOwner, \* history: per object, whose environment its saved_environ holds
    \* ---- display functions
    dispIn,         \* the function applied and its arguments
    dispOut,        \* what it printed or returned
    dispPc,         \* idle, done
    \* ---- the operations of one Aws object
    opEnviron,      \* os.environ of the process
    opCtx,          \* the fields of the Aws object
    opPc,           \* idle, running, done
    opIn,           \* the operation called and the position in its body
    opSaved,        \* saved_environ of the scope of the operation
    opScope,        \* the number of active scopes of the object
    opLog,          \* history: the remote calls of the operation, as issued
    opAmbient,      \* history: os.environ before the operation
    opOut,          \* returned or raised
    \* ---- nested scopes of one thread
    nestEnviron,    \* os.environ of the process
    nestCtx,        \* the fields of each AwsContext object
    nestStack,      \* the running calls of establish_credentials, outermost first
    nestAmbient,    \* history: os.environ before any scope
    nestLeft        \* history: the object whose scope was exited by the last step

ctxVars == <<environ, self, fsDirs, fsFiles, boto3Default, saved_environ, ctxPc,
             environ0, bodyWrote>>
secVars == <<secretStore, secPc, secArgs, secLocal, secResult, secTrace, secPrev>>
kmsVars == <<kmsPolicy, iamRoles, kmsDoc, kmsDoc0, kmsIn, kmsOut, kmsPc>>
sgVars  == <<sgGroups, sgIn, sgOut, sgPc>>
keyVars == <<iamUsers, iamKeys, keyPc, keyIn, keyOut>>
procVars == <<procEnviron, procDefault, procCtx, procPc, procSaved, procYield, procHeld,
              procAmbient, procCalls, procResets, procKeptAt, procActive, procOwner,
              procSavedOwner>>
dispVars == <<dispIn, dispOut, dispPc>>
opVars  == <<opEnviron, opCtx, opPc, opIn, opSaved, opScope, opLog, opAmbient, opOut>>
nestVars == <<nestEnviron, nestCtx, nestStack, nestAmbient, nestLeft>>
vars    == <<ctxVars, secVars, kmsVars, sgVars, keyVars, procVars, dispVars, opVars,
             nestVars>>
notCtx  == <<secVars, kmsVars, sgVars, keyVars, procVars, dispVars, opVars,
             nestVars>>
notSec  == <<ctxVars, kmsVars, sgVars, keyVars, procVars, dispVars, opVars,
             nestVars>>
notKms  == <<ctxVars, secVars, sgVars, keyVars, procVars, dispVars, opVars,
             nestVars>>
notSg   == <<ctxVars, secVars, kmsVars, keyVars, procVars, dispVars, opVars,
             nestVars>>
notKey  == <<ctxVars, secVars, kmsVars, sgVars, procVars, dispVars, opVars,
             nestVars>>
notProc == <<ctxVars, secVars, kmsVars, sgVars, keyVars, dispVars, opVars,
             nestVars>>
notDisp == <<ctxVars, secVars, kmsVars, sgVars, keyVars, procVars, opVars,
             nestVars>>
notOp   == <<ctxVars, secVars, kmsVars, sgVars, keyVars, procVars, dispVars, nestVars>>
notNest == <<ctxVars, secVars, kmsVars, sgVars, keyVars, procVars, dispVars, opVars>>

\* Python's None.
None == "<None>"

\* Python truthiness of an Optional[str]: None and "" are falsy.
Truthy(s) == s # None /\ s # ""

\* str.startswith / str.endswith
StartsWith(s, prefix) ==
    Len(s) >= Len(prefix) /\ SubSeq(s, 1, Len(prefix)) = prefix
EndsWith(s, suffix) ==
    Len(s) >= Len(suffix) /\ SubSeq(s, Len(s) - Len(suffix) + 1, Len(s)) = suffix

(***************************************************************************)
(*                 AwsContext.establish_credentials                        *)
(***************************************************************************)

\* A historical variant of the list, without the session token variable.
CredentialVariablesNoToken ==
    <<"AWS_ACCESS_KEY_ID", "AWS_CONFIG_FILE", "AWS_DEFAULT_REGION", "AWS_REGION",
      "AWS_SECRET_ACCESS_KEY", "AWS_SHARED_CREDENTIALS_FILE">>

\* The list passed to unset_environ, in the order of the source.
CredentialVariables ==
    <<"AWS_ACCESS_KEY_ID", "AWS_CONFIG_FILE", "AWS_DEFAULT_REGION", "AWS_REGION",
      "AWS_SECRET_ACCESS_KEY", "AWS_SESSION_TOKEN", "AWS_SHARED_CREDENTIALS_FILE">>

\* The seven variables the contract names; environ is a function on them,
\* None standing for "unset" (what os.environ.pop(name, None) returns).
EnvNames ==
    {"AWS_ACCESS_KEY_ID", "AWS_SECRET_ACCESS_KEY", "AWS_SESSION_TOKEN",
     "AWS_SHARED_CREDENTIALS_FILE", "AWS_CONFIG_FILE", "AWS_DEFAULT_REGION",
     "AWS_REGION"}

\* unset_environ: pops each variable, remembering its value, and points the
\* *_FILE variables at /dev/null. Returns the new environ and the saved dict.
RECURSIVE unset_environ_loop(_, _, _)
unset_environ_loop(names, env, saved) ==
    IF names = <<>> THEN [environ |-> env, saved |-> saved]
    ELSE LET name == Head(names)
             popped == [env EXCEPT ![name] = None]
             env2 == IF EndsWith(name, "_FILE")
                     THEN [popped EXCEPT ![name] = "/dev/null"]
                     ELSE popped
         IN unset_environ_loop(Tail(names), env2, saved @@ (name :> env[name]))

\* unset_environ that saves the variables and leaves them set.
unset_environ_saving_only(names, env) ==
    [environ |-> env, saved |-> unset_environ_loop(names, env, <<>>).saved]

unset_environ(names, env) == unset_environ_loop(names, env, <<>>)

\* restore_environ without its else branch: a variable that was unset stays
\* as the scope left it.
restore_environ_no_pop(saved, env) ==
    [name \in DOMAIN env |->
        IF name \in DOMAIN saved /\ saved[name] # None THEN saved[name]
        ELSE env[name]]

\* restore_environ: every saved variable gets its saved value back, or is
\* popped when it was unset.
restore_environ(saved, env) ==
    [name \in DOMAIN env |->
        IF name \in DOMAIN saved
        THEN IF saved[name] # None THEN saved[name] ELSE None
        ELSE env[name]]

\* os.path.join(directory, name) for a relative name and a directory that does
\* not end in a slash.
path_join(directory, name) == directory \o "/" \o name

\* setup_environ that looks for the config file only in the directory the
\* credentials were taken from (the local aws_credentials_dir, None unless the
\* directory branch ran).
setup_environ_local_dir(ctx, dirs, files, env) ==
    LET out(e, what) == [environ |-> e, raised |-> what]
        region(e, aws_credentials_dir) ==
            IF Truthy(ctx.aws_region)
            THEN out([e EXCEPT !["AWS_DEFAULT_REGION"] = ctx.aws_region], "")
            ELSE IF aws_credentials_dir = None
                 THEN out(e, "")
                 ELSE LET aws_config_file == path_join(aws_credentials_dir, "config")
                      IN IF aws_config_file \in files
                         THEN out([e EXCEPT !["AWS_CONFIG_FILE"] = aws_config_file], "")
                         ELSE out(e, "")
    IN IF Truthy(ctx.aws_access_key_id) /\ Truthy(ctx.aws_secret_access_key)
       THEN region([env EXCEPT !["AWS_ACCESS_KEY_ID"] = ctx.aws_access_key_id,
                               !["AWS_SECRET_ACCESS_KEY"] = ctx.aws_secret_access_key],
                   None)
       ELSE IF Truthy(ctx.aws_session_token)
       THEN region([env EXCEPT !["AWS_SESSION_TOKEN"] = ctx.aws_session_token], None)
       ELSE IF Truthy(ctx.aws_credentials_dir)
       THEN LET aws_credentials_file == path_join(ctx.aws_credentials_dir, "credentials")
            IN IF ctx.aws_credentials_dir \notin dirs
               THEN out(env, "AWS credentials directory not found")
               ELSE IF aws_credentials_file \notin files
               THEN out(env, "AWS credentials file not found")
               ELSE region([env EXCEPT !["AWS_SHARED_CREDENTIALS_FILE"] =
                                           aws_credentials_file],
                           ctx.aws_credentials_dir)
       ELSE out(env, "No AWS credentials specified.")

\* setup_environ without the os.path.isfile test of line 134.
setup_environ_no_isfile(ctx, dirs, files, env) ==
    LET out(e, what) == [environ |-> e, raised |-> what]
        region(e) ==
            IF Truthy(ctx.aws_region)
            THEN out([e EXCEPT !["AWS_DEFAULT_REGION"] = ctx.aws_region], "")
            ELSE IF ctx.aws_credentials_dir = None
                 THEN out(e, "TypeError")
                 ELSE LET aws_config_file == path_join(ctx.aws_credentials_dir, "config")
                      IN IF aws_config_file \in files
                         THEN out([e EXCEPT !["AWS_CONFIG_FILE"] = aws_config_file], "")
                         ELSE out(e, "")
    IN IF Truthy(ctx.aws_access_key_id) /\ Truthy(ctx.aws_secret_access_key)
       THEN region([env EXCEPT !["AWS_ACCESS_KEY_ID"] = ctx.aws_access_key_id,
                               !["AWS_SECRET_ACCESS_KEY"] = ctx.aws_secret_access_key])
       ELSE IF Truthy(ctx.aws_session_token)
       THEN region([env EXCEPT !["AWS_SESSION_TOKEN"] = ctx.aws_session_token])
       ELSE IF Truthy(ctx.aws_credentials_dir)
       THEN LET aws_credentials_file == path_join(ctx.aws_credentials_dir, "credentials")
            IN IF ctx.aws_credentials_dir \notin dirs
               THEN out(env, "AWS credentials directory not found")
               ELSE region([env EXCEPT !["AWS_SHARED_CREDENTIALS_FILE"] =
                                           aws_credentials_file])
       ELSE out(env, "No AWS credentials specified.")

\* setup_environ exporting the session token together with the key pair.
setup_environ_token_too(ctx, dirs, files, env) ==
    LET out(e, what) == [environ |-> e, raised |-> what]
        region(e) ==
            IF Truthy(ctx.aws_region)
            THEN out([e EXCEPT !["AWS_DEFAULT_REGION"] = ctx.aws_region], "")
            ELSE IF ctx.aws_credentials_dir = None
                 THEN out(e, "TypeError")   \* os.path.join(None, "config")
                 ELSE LET aws_config_file == path_join(ctx.aws_credentials_dir, "config")
                      IN IF aws_config_file \in files
                         THEN out([e EXCEPT !["AWS_CONFIG_FILE"] = aws_config_file], "")
                         ELSE out(e, "")
    IN IF Truthy(ctx.aws_access_key_id) /\ Truthy(ctx.aws_secret_access_key)
       THEN region([env EXCEPT !["AWS_ACCESS_KEY_ID"] = ctx.aws_access_key_id,
                               !["AWS_SECRET_ACCESS_KEY"] = ctx.aws_secret_access_key,
                               !["AWS_SESSION_TOKEN"] = ctx.aws_session_token])
       ELSE IF Truthy(ctx.aws_session_token)
       THEN region([env EXCEPT !["AWS_SESSION_TOKEN"] = ctx.aws_session_token])
       ELSE IF Truthy(ctx.aws_credentials_dir)
       THEN LET aws_credentials_file == path_join(ctx.aws_credentials_dir, "credentials")
            IN IF ctx.aws_credentials_dir \notin dirs
               THEN out(env, "AWS credentials directory not found")
               ELSE IF aws_credentials_file \notin files
               THEN out(env, "AWS credentials file not found")
               ELSE region([env EXCEPT !["AWS_SHARED_CREDENTIALS_FILE"] =
                                           aws_credentials_file])
       ELSE out(env, "No AWS credentials specified.")

\* Lines 123-146: the environment for the specified credentials. Returns the
\* environ reached and the exception raised on the way ("" when none).
setup_environ(ctx, dirs, files, env) ==
    LET out(e, what) == [environ |-> e, raised |-> what]
        region(e) ==
            IF Truthy(ctx.aws_region)
            THEN out([e EXCEPT !["AWS_DEFAULT_REGION"] = ctx.aws_region], "")
            ELSE IF ctx.aws_credentials_dir = None
                 THEN out(e, "TypeError")   \* os.path.join(None, "config")
                 ELSE LET aws_config_file == path_join(ctx.aws_credentials_dir, "config")
                      IN IF aws_config_file \in files
                         THEN out([e EXCEPT !["AWS_CONFIG_FILE"] = aws_config_file], "")
                         ELSE out(e, "")
    IN IF Truthy(ctx.aws_access_key_id) /\ Truthy(ctx.aws_secret_access_key)
       THEN region([env EXCEPT !["AWS_ACCESS_KEY_ID"] = ctx.aws_access_key_id,
                               !["AWS_SECRET_ACCESS_KEY"] = ctx.aws_secret_access_key])
       ELSE IF Truthy(ctx.aws_session_token)
       THEN region([env EXCEPT !["AWS_SESSION_TOKEN"] = ctx.aws_session_token])
       ELSE IF Truthy(ctx.aws_credentials_dir)
       THEN LET aws_credentials_file == path_join(ctx.aws_credentials_dir, "credentials")
            IN IF ctx.aws_credentials_dir \notin dirs
               THEN out(env, "AWS credentials directory not found")
               ELSE IF aws_credentials_file \notin files
               THEN out(env, "AWS credentials file not found")
               ELSE region([env EXCEPT !["AWS_SHARED_CREDENTIALS_FILE"] =
                                           aws_credentials_file])
       ELSE out(env, "No AWS credentials specified.")

\* Everything establish_credentials does to os.environ before it creates the
\* boto3 session: unset_environ, then the setup above.
established_environ(ctx, dirs, files, env) ==
    setup_environ(ctx, dirs, files, unset_environ(CredentialVariables, env).environ)

\* ---- the states establish_credentials starts from

AmbientEnvirons == [EnvNames -> {None, "ambient"}]

CredentialsDir == "/creds"

Contexts ==
    [aws_access_key_id : {None, "AKIAEXAMPLE"},
     aws_secret_access_key : {None, "secret-access-key"},
     aws_region : {None, "us-east-1"},
     aws_session_token : {None, "session-token"},
     aws_credentials_dir : {None, CredentialsDir},
     reset_boto3_default_session : {TRUE}]

\* The directory is missing, or is there with any of its two files.
FileSystems ==
    {[dirs |-> {}, files |-> {}]} \cup
    {[dirs |-> {CredentialsDir}, files |-> f] :
        f \in SUBSET {path_join(CredentialsDir, "credentials"),
                      path_join(CredentialsDir, "config")}}

NoSaved == <<>>

\* No call of establish_credentials is modelled: the variables rest.
IdleCtx ==
    /\ environ = [name \in EnvNames |-> None]
    /\ self = [aws_access_key_id |-> None, aws_secret_access_key |-> None,
               aws_region |-> None, aws_session_token |-> None,
               aws_credentials_dir |-> None, reset_boto3_default_session |-> TRUE]
    /\ fsDirs = {}
    /\ fsFiles = {}
    /\ boto3Default = None
    /\ saved_environ = NoSaved
    /\ ctxPc = "idle"
    /\ environ0 = environ
    /\ bodyWrote = FALSE

InitCtx ==
    /\ environ \in AmbientEnvirons
    /\ self \in Contexts
    /\ \E fs \in FileSystems :
          /\ fsDirs = fs.dirs
          /\ fsFiles = fs.files
          /\ (self.aws_credentials_dir = None => fs.dirs = {})
    /\ boto3Default = "ambient"
    /\ saved_environ = NoSaved
    /\ ctxPc = "idle"
    /\ environ0 = environ
    /\ bodyWrote = FALSE

\* establish_credentials up to the creation of the boto3 session (lines 101-146):
\* the environment is saved and cleared, the default session is reset on this
\* object's first call, the environment is set up; an exception in the setup
\* runs the finally clause.
Establish ==
    /\ ctxPc = "idle"
    /\ LET cleared == unset_environ(CredentialVariables, environ)
           setup == setup_environ(self, fsDirs, fsFiles, cleared.environ)
       IN /\ environ0' = environ
          /\ bodyWrote' = FALSE
          /\ boto3Default' = IF self.reset_boto3_default_session THEN None
                             ELSE boto3Default
          /\ self' = [self EXCEPT !.reset_boto3_default_session = FALSE]
          /\ IF setup.raised = ""
             THEN /\ environ' = setup.environ
                  /\ saved_environ' = cleared.saved
                  /\ ctxPc' = "session"
             ELSE /\ environ' = restore_environ(cleared.saved, setup.environ)
                  /\ saved_environ' = NoSaved
                  /\ ctxPc' = "raised"
    /\ UNCHANGED <<fsDirs, fsFiles>>
    /\ UNCHANGED notCtx

\* Lines 149-182: the boto3 session and the caller identity. boto3.client("sts")
\* creates the default session when there is none. Either the Credentials object
\* is yielded, or one of the four exceptions runs the finally clause.
Session ==
    /\ ctxPc = "session"
    /\ \E ok \in BOOLEAN :
          IF ok
          THEN /\ ctxPc' = "body"
               /\ boto3Default' = IF boto3Default = None THEN "scoped" ELSE boto3Default
               /\ UNCHANGED <<environ, saved_environ>>
          ELSE /\ ctxPc' = "raised"
               /\ environ' = restore_environ(saved_environ, environ)
               /\ saved_environ' = NoSaved
               /\ UNCHANGED boto3Default
    /\ UNCHANGED <<self, fsDirs, fsFiles, environ0, bodyWrote>>
    /\ UNCHANGED notCtx

\* The body of the with statement is the caller's code: it may itself write one
\* of the credential variables.
BodyWrite ==
    /\ ctxPc = "body"
    /\ ~bodyWrote
    /\ \E name \in EnvNames, value \in {None, "body"} :
          environ' = [environ EXCEPT ![name] = value]
    /\ bodyWrote' = TRUE
    /\ UNCHANGED <<self, fsDirs, fsFiles, boto3Default, saved_environ, ctxPc, environ0>>
    /\ UNCHANGED notCtx

\* The body ends, normally or with an exception thrown into the generator at
\* the yield: the finally clause (lines 184-186) restores the environment.
ScopeExit ==
    /\ ctxPc = "body"
    /\ \E how \in {"exited", "raised"} : ctxPc' = how
    /\ environ' = restore_environ(saved_environ, environ)
    /\ saved_environ' = NoSaved
    /\ UNCHANGED <<self, fsDirs, fsFiles, boto3Default, environ0, bodyWrote>>
    /\ UNCHANGED notCtx

\* The caller goes on and may call establish_credentials of the same object again.
CtxReturn ==
    /\ ctxPc \in {"exited", "raised"}
    /\ ctxPc' = "idle"
    /\ UNCHANGED <<environ, self, fsDirs, fsFiles, boto3Default, saved_environ,
                   environ0, bodyWrote>>
    /\ UNCHANGED notCtx

NextCtx ==
    \/ Establish
    \/ Session
    \/ BodyWrite
    \/ ScopeExit
    \/ CtxReturn

(***************************************************************************)
(*                     Aws.update_secret_key_value                         *)
(***************************************************************************)

\* Aws._DEACTIVATED_SECRET_VALUE_PREFIX
DEACTIVATED_SECRET_VALUE_PREFIX == "DEACTIVATED:"

\* ---- json.loads / json.dumps of a flat JSON object
\* The SecretString is the text of a JSON object: a sequence of members
\* <<key, value>>, in which a key may occur more than once. A Python dict is
\* [keys |-> the keys in insertion order, val |-> key to value].

EmptyDict == [keys |-> <<>>, val |-> <<>>]

InDict(d, key) == \E i \in 1..Len(d.keys) : d.keys[i] = key

\* dict.get(key): the value, or None.
dict_get(d, key) == IF InDict(d, key) THEN d.val[key] ELSE None

\* dict.__setitem__ that forgets the other entries.
dict_set_alone(d, key, value) == [keys |-> <<key>>, val |-> (key :> value)]

\* dict.__setitem__: a present key keeps its place, a new key goes last.
dict_set(d, key, value) ==
    IF InDict(d, key)
    THEN [d EXCEPT !.val = [k \in DOMAIN d.val |-> IF k = key THEN value ELSE d.val[k]]]
    ELSE [keys |-> Append(d.keys, key), val |-> d.val @@ (key :> value)]

\* json.loads: members are inserted left to right, a repeated key taking the
\* later value.
RECURSIVE json_loads_from(_, _)
json_loads_from(text, d) ==
    IF text = <<>> THEN d
    ELSE json_loads_from(Tail(text), dict_set(d, Head(text)[1], Head(text)[2]))

json_loads(text) == json_loads_from(text, EmptyDict)

\* json.dumps: one member per key, in insertion order.
json_dumps(d) == [i \in 1..Len(d.keys) |-> <<d.keys[i], d.val[d.keys[i]]>>]

\* ---- misc_utils.should_obfuscate

UpperCase == <<"A", "B", "C", "D", "E", "F", "G", "H", "I", "J", "K", "L", "M",
               "N", "O", "P", "Q", "R", "S", "T", "U", "V", "W", "X", "Y", "Z">>
LowerCase == <<"a", "b", "c", "d", "e", "f", "g", "h", "i", "j", "k", "l", "m",
               "n", "o", "p", "q", "r", "s", "t", "u", "v", "w", "x", "y", "z">>

LowerChar(c) ==
    IF \E i \in 1..Len(UpperCase) : UpperCase[i] = c
    THEN LowerCase[CHOOSE i \in 1..Len(UpperCase) : UpperCase[i] = c]
    ELSE c

\* re.IGNORECASE: the key is compared character by character in lower case.
MatchesAt(s, i, word) ==
    /\ i + Len(word) - 1 <= Len(s)
    /\ \A j \in 1..Len(word) : LowerChar(SubSeq(s, i + j - 1, i + j - 1)) = word[j]

Letters(word) == [j \in 1..Len(word) |-> SubSeq(word, j, j)]

\* should_obfuscate without the (?!_key_id$) of the pattern.
should_obfuscate_no_lookahead(key) ==
    \E i \in 1..Len(key) :
        \E word \in {"secret", "secrt", "password", "passwd", "crypt"} :
            MatchesAt(key, i, Letters(word))

\* .*(secret|secrt|password|passwd|crypt(?!_key_id$)).* matched from the start
\* of the key: one of the words occurs, "crypt" not counting where the rest of
\* the key is exactly "_key_id".
should_obfuscate(key) ==
    \E i \in 1..Len(key) :
        \/ \E word \in {"secret", "secrt", "password", "passwd"} :
              MatchesAt(key, i, Letters(word))
        \/ /\ MatchesAt(key, i, Letters("crypt"))
           /\ ~(/\ MatchesAt(key, i + 5, Letters("_key_id"))
                /\ i + 5 + 7 - 1 = Len(key))

\* ---- the call

SecretKeys == {"RDS_HOST", "RDS_PASSWORD"}

\* Values a key holds in the initial record, and values a caller asks for.
InitialValues == {"old.db", "DEACTIVATED:old.db"}
TargetValues == {None, "", "new.db"}

\* Members of the initial SecretString.
MaxMembers == 2

RECURSIVE SeqsUpTo(_, _)
SeqsUpTo(S, n) ==
    IF n = 0 THEN {<<>>}
    ELSE LET shorter == SeqsUpTo(S, n - 1)
         IN shorter \cup {Append(q, x) : q \in {r \in shorter : Len(r) = n - 1}, x \in S}

InitialSecretStrings == SeqsUpTo(SecretKeys \X InitialValues, MaxMembers)

\* The secret the calls name.
SecretName == "AppSecret"

NoArgs == [name |-> None, key |-> None, value |-> None, show |-> FALSE]
NoLocal == [fetched |-> EmptyDict, current |-> None, value |-> None, action |-> None]
NoSecrets == <<>>
NoTrace == [prompts |-> <<>>, answer |-> None, writes |-> 0, store0 |-> NoSecrets,
            scope |-> FALSE, external |-> NoSecrets]
NoPrev == [key |-> None, value |-> None]

IdleSecret ==
    /\ secretStore = NoSecrets
    /\ secPc = "idle"
    /\ secArgs = NoArgs
    /\ secLocal = NoLocal
    /\ secResult = None
    /\ secTrace = NoTrace
    /\ secPrev = NoPrev

InitSecret ==
    /\ secretStore \in {NoSecrets} \cup
                       {(SecretName :> text) : text \in InitialSecretStrings}
    /\ secPc = "idle"
    /\ secArgs = NoArgs
    /\ secLocal = NoLocal
    /\ secResult = None
    /\ secTrace = NoTrace
    /\ secPrev = NoPrev

\* should_obfuscate on the keys of the model, evaluated once.
Sensitive == [key \in SecretKeys |-> should_obfuscate(key)]

\* print_secret: the prompts it asks (at most one).
print_secret(key_name, key_value, show) ==
    IF ~Truthy(key_value) THEN <<>>
    ELSE IF Sensitive[key_name] /\ ~show THEN <<"Show in plaintext?">>
    ELSE <<>>

\* decide with the prefix put after the current value.
decide_prefix_last(json, key, target, show) ==
    LET current == dict_get(json, key)
        shown == print_secret(key, current, show)
        stop(prompts) == [next |-> "return False", prompts |-> prompts,
                          value |-> target, action |-> None]
        go(prompts, value, action) == [next |-> "confirm", prompts |-> prompts,
                                       value |-> value, action |-> action]
    IN IF target = None
       THEN IF current = None THEN stop(<<>>)
            ELSE IF StartsWith(current, DEACTIVATED_SECRET_VALUE_PREFIX) THEN stop(shown)
            ELSE go(shown, current \o DEACTIVATED_SECRET_VALUE_PREFIX, "deactivate")
       ELSE IF current = None
            THEN go(print_secret(key, target, show), target, "create")
            ELSE IF current = target THEN stop(shown)
            ELSE go(shown \o print_secret(key, target, show), target, "update")

\* decide without the two "nothing to do" checks of lines 88 and 103.
decide_unchecked(json, key, target, show) ==
    LET current == dict_get(json, key)
        shown == print_secret(key, current, show)
        stop(prompts) == [next |-> "return False", prompts |-> prompts,
                          value |-> target, action |-> None]
        go(prompts, value, action) == [next |-> "confirm", prompts |-> prompts,
                                       value |-> value, action |-> action]
    IN IF target = None
       THEN IF current = None THEN stop(<<>>)
            ELSE go(shown, DEACTIVATED_SECRET_VALUE_PREFIX \o current, "deactivate")
       ELSE IF current = None
            THEN go(print_secret(key, target, show), target, "create")
            ELSE go(shown \o print_secret(key, target, show), target, "update")

\* Lines 79-107 on the fetched dict: either the call returns False, or it goes
\* on to the confirmation with the action and the value to store. prompts are
\* the questions print_secret asked on the way.
decide(json, key, target, show) ==
    LET current == dict_get(json, key)
        shown == print_secret(key, current, show)
        stop(prompts) == [next |-> "return False", prompts |-> prompts,
                          value |-> target, action |-> None]
        go(prompts, value, action) == [next |-> "confirm", prompts |-> prompts,
                                       value |-> value, action |-> action]
    IN IF target = None
       THEN IF current = None THEN stop(<<>>)
            ELSE IF StartsWith(current, DEACTIVATED_SECRET_VALUE_PREFIX) THEN stop(shown)
            ELSE go(shown, DEACTIVATED_SECRET_VALUE_PREFIX \o current, "deactivate")
       ELSE IF current = None
            THEN go(print_secret(key, target, show), target, "create")
            ELSE IF current = target THEN stop(shown)
            ELSE go(shown \o print_secret(key, target, show), target, "update")

\* SecretCall with the exception of get_secret_value left to reach the caller.
SecretCallRaising ==
    /\ secPc = "idle"
    /\ \E key \in SecretKeys, target \in TargetValues, show \in BOOLEAN,
          scope \in BOOLEAN, fetch \in BOOLEAN :
          /\ secArgs' = [name |-> SecretName, key |-> key, value |-> target,
                          show |-> show]
          /\ IF ~scope
             THEN /\ secResult' = "raised"
                  /\ secPc' = "done"
                  /\ secLocal' = NoLocal
                  /\ secTrace' = [NoTrace EXCEPT !.store0 = secretStore]
             ELSE IF SecretName \notin DOMAIN secretStore \/ ~fetch
             THEN /\ secResult' = "raised"
                  /\ secPc' = "done"
                  /\ secLocal' = NoLocal
                  /\ secTrace' = [NoTrace EXCEPT !.store0 = secretStore, !.scope = TRUE]
             ELSE LET json == json_loads(secretStore[SecretName])
                      d == decide(json, key, target, show)
                  IN \E raisedAt \in 0..Len(d.prompts) :
                        /\ secLocal' = [fetched |-> json,
                                        current |-> dict_get(json, key),
                                        value |-> d.value, action |-> d.action]
                        /\ secTrace' =
                              [NoTrace EXCEPT
                                 !.store0 = secretStore, !.scope = TRUE,
                                 !.prompts = IF raisedAt = 0 THEN d.prompts
                                             ELSE SubSeq(d.prompts, 1, raisedAt)]
                        /\ IF raisedAt = 0 /\ d.next = "confirm"
                           THEN secPc' = "confirm" /\ secResult' = None
                           ELSE secPc' = "done" /\ secResult' = "False"
    /\ UNCHANGED <<secretStore, secPrev>>
    /\ UNCHANGED notSec

\* update_secret_key_value up to its confirmation (lines 66-108): the scope is
\* established (or establish_credentials raises), the secret is fetched (a
\* failing get_secret_value returns False), the action is decided. A prompt of
\* print_secret that raises (end of input) is caught and returns False.
SecretCall ==
    /\ secPc = "idle"
    /\ \E key \in SecretKeys, target \in TargetValues, show \in BOOLEAN,
          scope \in BOOLEAN, fetch \in BOOLEAN :
          /\ secArgs' = [name |-> SecretName, key |-> key, value |-> target,
                          show |-> show]
          /\ IF ~scope
             THEN /\ secResult' = "raised"
                  /\ secPc' = "done"
                  /\ secLocal' = NoLocal
                  /\ secTrace' = [NoTrace EXCEPT !.store0 = secretStore]
             ELSE IF SecretName \notin DOMAIN secretStore \/ ~fetch
             THEN /\ secResult' = "False"
                  /\ secPc' = "done"
                  /\ secLocal' = NoLocal
                  /\ secTrace' = [NoTrace EXCEPT !.store0 = secretStore, !.scope = TRUE]
             ELSE LET json == json_loads(secretStore[SecretName])
                      d == decide(json, key, target, show)
                  IN \E raisedAt \in 0..Len(d.prompts) :
                        /\ secLocal' = [fetched |-> json,
                                        current |-> dict_get(json, key),
                                        value |-> d.value, action |-> d.action]
                        /\ secTrace' =
                              [NoTrace EXCEPT
                                 !.store0 = secretStore, !.scope = TRUE,
                                 !.prompts = IF raisedAt = 0 THEN d.prompts
                                             ELSE SubSeq(d.prompts, 1, raisedAt)]
                        /\ IF raisedAt = 0 /\ d.next = "confirm"
                           THEN secPc' = "confirm" /\ secResult' = None
                           ELSE secPc' = "done" /\ secResult' = "False"
    /\ UNCHANGED <<secretStore, secPrev>>
    /\ UNCHANGED notSec

\* Lines 108-115 without the test of the answer: the write is issued whatever
\* the operator said.
SecretAnswerIgnored ==
    /\ secPc = "confirm"
    /\ \E answer \in {"yes", "no", "raised"}, written \in BOOLEAN :
          LET asked == Append(secTrace.prompts, "Are you sure?")
              json == dict_set(secLocal.fetched, secArgs.key, secLocal.value)
          IN /\ secTrace' = [secTrace EXCEPT !.prompts = asked, !.answer = answer,
                                             !.writes = @ + 1]
             /\ IF written
                THEN /\ secretStore' = [secretStore EXCEPT
                                            ![secArgs.name] = json_dumps(json)]
                     /\ secResult' = "True"
                ELSE secretStore' = secretStore /\ secResult' = "False"
    /\ secPc' = "done"
    /\ UNCHANGED <<secArgs, secLocal, secPrev>>
    /\ UNCHANGED notSec

\* SecretAnswer with the exception of update_secret left to reach the caller.
SecretAnswerPropagating ==
    /\ secPc = "confirm"
    /\ \E answer \in {"yes", "no", "raised"}, written \in BOOLEAN :
          LET asked == Append(secTrace.prompts, "Are you sure?")
              json == dict_set(secLocal.fetched, secArgs.key, secLocal.value)
          IN IF answer = "yes"
             THEN /\ secTrace' = [secTrace EXCEPT !.prompts = asked, !.answer = answer,
                                                  !.writes = @ + 1]
                  /\ IF written
                     THEN /\ secretStore' = [secretStore EXCEPT
                                                 ![secArgs.name] = json_dumps(json)]
                          /\ secResult' = "True"
                     ELSE secretStore' = secretStore /\ secResult' = "raised"
             ELSE /\ written
                  /\ secTrace' = [secTrace EXCEPT !.prompts = asked, !.answer = answer]
                  /\ secretStore' = secretStore
                  /\ secResult' = "False"
    /\ secPc' = "done"
    /\ UNCHANGED <<secArgs, secLocal, secPrev>>
    /\ UNCHANGED notSec

\* SecretAnswer deactivating a key by deleting it from the record.
SecretAnswerDeleting ==
    /\ secPc = "confirm"
    /\ \E answer \in {"yes", "no", "raised"}, written \in BOOLEAN :
          LET asked == Append(secTrace.prompts, "Are you sure?")
              json == IF secLocal.action = "deactivate"
                      THEN [keys |-> SelectSeq(secLocal.fetched.keys,
                                               LAMBDA k : k # secArgs.key),
                            val |-> [k \in DOMAIN secLocal.fetched.val \ {secArgs.key}
                                        |-> secLocal.fetched.val[k]]]
                      ELSE dict_set(secLocal.fetched, secArgs.key, secLocal.value)
          IN IF answer = "yes"
             THEN /\ secTrace' = [secTrace EXCEPT !.prompts = asked, !.answer = answer,
                                                  !.writes = @ + 1]
                  /\ IF written
                     THEN /\ secretStore' = [secretStore EXCEPT
                                                 ![secArgs.name] = json_dumps(json)]
                          /\ secResult' = "True"
                     ELSE secretStore' = secretStore /\ secResult' = "False"
             ELSE /\ written
                  /\ secTrace' = [secTrace EXCEPT !.prompts = asked, !.answer = answer]
                  /\ secretStore' = secretStore
                  /\ secResult' = "False"
    /\ secPc' = "done"
    /\ UNCHANGED <<secArgs, secLocal, secPrev>>
    /\ UNCHANGED notSec

\* SecretAnswer setting the key in the record as it is stored at the time of the
\* write.
SecretAnswerRefetching ==
    /\ secPc = "confirm"
    /\ \E answer \in {"yes", "no", "raised"}, written \in BOOLEAN :
          LET asked == Append(secTrace.prompts, "Are you sure?")
              json == dict_set(json_loads(secretStore[secArgs.name]), secArgs.key, secLocal.value)
          IN IF answer = "yes"
             THEN /\ secTrace' = [secTrace EXCEPT !.prompts = asked, !.answer = answer,
                                                  !.writes = @ + 1]
                  /\ IF written
                     THEN /\ secretStore' = [secretStore EXCEPT
                                                 ![secArgs.name] = json_dumps(json)]
                          /\ secResult' = "True"
                     ELSE secretStore' = secretStore /\ secResult' = "False"
             ELSE /\ written
                  /\ secTrace' = [secTrace EXCEPT !.prompts = asked, !.answer = answer]
                  /\ secretStore' = secretStore
                  /\ secResult' = "False"
    /\ secPc' = "done"
    /\ UNCHANGED <<secArgs, secLocal, secPrev>>
    /\ UNCHANGED notSec

\* Lines 108-115: the operator answers the confirmation; on yes the key is set
\* in the fetched dict and the whole dict is written back. An exception of
\* yes_or_no (end of input) or of update_secret is caught and returns False.
SecretAnswer ==
    /\ secPc = "confirm"
    /\ \E answer \in {"yes", "no", "raised"}, written \in BOOLEAN :
          LET asked == Append(secTrace.prompts, "Are you sure?")
              json == dict_set(secLocal.fetched, secArgs.key, secLocal.value)
          IN IF answer = "yes"
             THEN /\ secTrace' = [secTrace EXCEPT !.prompts = asked, !.answer = answer,
                                                  !.writes = @ + 1]
                  /\ IF written
                     THEN /\ secretStore' = [secretStore EXCEPT
                                                 ![secArgs.name] = json_dumps(json)]
                          /\ secResult' = "True"
                     ELSE secretStore' = secretStore /\ secResult' = "False"
             ELSE /\ written
                  /\ secTrace' = [secTrace EXCEPT !.prompts = asked, !.answer = answer]
                  /\ secretStore' = secretStore
                  /\ secResult' = "False"
    /\ secPc' = "done"
    /\ UNCHANGED <<secArgs, secLocal, secPrev>>
    /\ UNCHANGED notSec

\* The caller has the result and may call again.
SecretReturn ==
    /\ secPc = "done"
    /\ secPc' = "idle"
    /\ secPrev' = IF secResult = "True"
                  THEN [key |-> secArgs.key, value |-> secArgs.value]
                  ELSE NoPrev
    /\ secArgs' = NoArgs
    /\ secLocal' = NoLocal
    /\ secResult' = None
    /\ secTrace' = NoTrace
    /\ UNCHANGED secretStore
    /\ UNCHANGED notSec

NextSecret ==
    \/ SecretCall
    \/ SecretAnswer
    \/ SecretReturn

\* ---- a second writer of the secret

ExternalValues == {"external.db"}

\* Another client of Secrets Manager sets a key of the secret between the
\* get_secret_value of line 75 and the update_secret of line 111.
ExternalWrite ==
    /\ secPc = "confirm"
    /\ secTrace.external = NoSecrets
    /\ \E key \in SecretKeys, value \in ExternalValues :
          LET json == dict_set(json_loads(secretStore[secArgs.name]), key, value)
              written == [secretStore EXCEPT ![secArgs.name] = json_dumps(json)]
          IN /\ secretStore' = written
             /\ secTrace' = [secTrace EXCEPT !.external = written]
    /\ UNCHANGED <<secPc, secArgs, secLocal, secResult, secPrev>>
    /\ UNCHANGED notSec

NextSecretExt ==
    \/ SecretCall
    \/ ExternalWrite
    \/ SecretAnswer
    \/ SecretReturn

(***************************************************************************)
(*        Aws.amend_kms_key_policy and the update-kms-policy driver        *)
(***************************************************************************)

\* A principal ARN is represented by its rank in the order Python compares
\* the ARN strings in (list.sort, sorted): 1..NumArns. ARN 1 stands for a role
\* whose ARN does not match ".*foursight.*", the others match it.
NumArns == 3
Arns == 1..NumArns

\* Longest principal list of the selected statement in the initial policy, and
\* longest list of additional roles / IAM roles.
MaxPrincipals == 2
MaxAdditional == 2

\* The value of Principal.AWS in JSON: an array of ARNs, or a single string.
ArnList(items) == [kind |-> "list", items |-> items]
ArnString(arn) == [kind |-> "str", items |-> <<arn>>]
\* What get_kms_key_policy_principals returns when no statement matches.
NoPrincipals == [kind |-> "None", items |-> <<>>]

Statement(sid, aws, action) ==
    [Sid |-> sid, Effect |-> "Allow", Principal |-> [AWS |-> aws],
     Action |-> action, Resource |-> "*"]

Document(statements) == [Version |-> "2012-10-17", Statement |-> statements]

\* ---- json.dumps / json.loads of a policy document
\* The stored policy is JSON text: an object is the sequence of its members
\* <<name, value>>, an array the sequence of its elements.

member(text, name) ==
    text[CHOOSE i \in 1..Len(text) :
            /\ text[i][1] = name
            /\ \A j \in (i + 1)..Len(text) : text[j][1] # name][2]

statement_dumps(st) ==
    << <<"Sid", st.Sid>>, <<"Effect", st.Effect>>,
       <<"Principal", << <<"AWS", st.Principal.AWS>> >> >>,
       <<"Action", st.Action>>, <<"Resource", st.Resource>> >>

policy_dumps(doc) ==
    << <<"Version", doc.Version>>,
       <<"Statement", [i \in 1..Len(doc.Statement) |->
                          statement_dumps(doc.Statement[i])]>> >>

statement_loads(text) ==
    [Sid |-> member(text, "Sid"), Effect |-> member(text, "Effect"),
     Principal |-> [AWS |-> member(member(text, "Principal"), "AWS")],
     Action |-> member(text, "Action"), Resource |-> member(text, "Resource")]

policy_loads(text) ==
    [Version |-> member(text, "Version"),
     Statement |-> [i \in 1..Len(member(text, "Statement")) |->
                       statement_loads(member(text, "Statement")[i])]]

\* ---- get_kms_key_policy_principals

\* re.match(sid_pattern, sid) for a pattern without metacharacters, such as the
\* driver's: the Sid begins with the pattern.
re_match_sid(sid_pattern, sid) == StartsWith(sid, sid_pattern)

\* The statement the loop of lines 272-275 returns from: the first whose Sid
\* matches, 0 when the loop ends without a match.
RECURSIVE matching_statement_from(_, _, _)
matching_statement_from(statements, sid_pattern, i) ==
    IF i > Len(statements) THEN 0
    ELSE IF re_match_sid(sid_pattern, statements[i].Sid) THEN i
    ELSE matching_statement_from(statements, sid_pattern, i + 1)

\* The loop returning from the last statement whose Sid matches.
matching_statement_last(doc, sid_pattern) ==
    LET hits == {i \in 1..Len(doc.Statement) :
                    re_match_sid(sid_pattern, doc.Statement[i].Sid)}
    IN IF hits = {} THEN 0 ELSE CHOOSE i \in hits : \A j \in hits : j <= i

matching_statement(doc, sid_pattern) ==
    matching_statement_from(doc.Statement, sid_pattern, 1)

get_kms_key_policy_principals(doc, sid_pattern) ==
    LET i == matching_statement(doc, sid_pattern)
    IN IF i = 0 THEN NoPrincipals ELSE doc.Statement[i].Principal.AWS

\* ---- amend_kms_key_policy

InList(x, list) == \E i \in 1..Len(list) : list[i] = x

\* list.sort(): insertion sort.
RECURSIVE insert_sorted(_, _)
insert_sorted(x, list) ==
    IF list = <<>> THEN <<x>>
    ELSE IF x <= Head(list) THEN <<x>> \o list
    ELSE <<Head(list)>> \o insert_sorted(x, Tail(list))

RECURSIVE sorted(_)
sorted(list) == IF list = <<>> THEN <<>> ELSE insert_sorted(Head(list), sorted(Tail(list)))

\* The loop of lines 292-295 without the membership test.
RECURSIVE amend_loop_all(_, _, _)
amend_loop_all(principals, roles, nadded) ==
    IF roles = <<>> THEN [principals |-> principals, nadded |-> nadded]
    ELSE amend_loop_all(Append(principals, Head(roles)), Tail(roles), nadded + 1)

\* The loop of lines 292-295 on a list of principals.
RECURSIVE amend_loop(_, _, _)
amend_loop(principals, roles, nadded) ==
    IF roles = <<>> THEN [principals |-> principals, nadded |-> nadded]
    ELSE IF ~InList(Head(roles), principals)
         THEN amend_loop(Append(principals, Head(roles)), Tail(roles), nadded + 1)
         ELSE amend_loop(principals, Tail(roles), nadded)

\* amend_kms_key_policy that stores the additional roles in place of the
\* principals.
amend_replacing(doc, sid_pattern, additional_roles) ==
    LET i == matching_statement(doc, sid_pattern)
    IN IF i = 0 \/ doc.Statement[i].Principal.AWS.kind # "list"
       THEN [doc |-> doc, nadded |-> 0, raised |-> "TypeError"]
       ELSE [doc |-> [doc EXCEPT !.Statement[i].Principal.AWS.items =
                                     sorted(additional_roles)],
             nadded |-> Len(additional_roles), raised |-> ""]

\* amend_kms_key_policy taking absent principals for an empty list that it
\* discards.
amend_absent_as_empty(doc, sid_pattern, additional_roles) ==
    LET i == matching_statement(doc, sid_pattern)
        principals == get_kms_key_policy_principals(doc, sid_pattern)
    IN IF principals.kind = "None"
       THEN [doc |-> doc, nadded |-> Len(additional_roles), raised |-> ""]
       ELSE IF principals.kind = "str"
       THEN [doc |-> doc, nadded |-> 0, raised |-> "AttributeError"]
       ELSE LET r == amend_loop(principals.items, additional_roles, 0)
            IN [doc |-> [doc EXCEPT !.Statement[i].Principal.AWS.items =
                                        sorted(r.principals)],
                nadded |-> r.nadded, raised |-> ""]

\* amend_kms_key_policy: the document after the call (it is amended in place),
\* the count returned, and the exception raised ("" when none). Without a
\* matching statement the principals are None, and "in None" (or None.sort()
\* for no roles) raises; with a single string for principals, str.append or
\* str.sort() raises: the document is then as it was.
amend_kms_key_policy(doc, sid_pattern, additional_roles) ==
    LET i == matching_statement(doc, sid_pattern)
        principals == get_kms_key_policy_principals(doc, sid_pattern)
    IN IF principals.kind = "None"
       THEN [doc |-> doc, nadded |-> 0,
             raised |-> IF additional_roles = <<>> THEN "AttributeError" ELSE "TypeError"]
       ELSE IF principals.kind = "str"
       THEN [doc |-> doc, nadded |-> 0, raised |-> "AttributeError"]
       ELSE LET r == amend_loop(principals.items, additional_roles, 0)
            IN [doc |-> [doc EXCEPT !.Statement[i].Principal.AWS.items =
                                        sorted(r.principals)],
                nadded |-> r.nadded, raised |-> ""]

\* ---- the driver (update_kms_policy/cli.py)

\* kms_key_sid_pattern of the driver.
SidPattern == "Allow use of the key"

\* re.match(".*foursight.*", role_arn)
is_foursight(arn) == arn # 1

\* find_iam_role_arns: the matching roles, in list_roles order.
RECURSIVE find_iam_role_arns(_)
find_iam_role_arns(roles) ==
    IF roles = <<>> THEN <<>>
    ELSE IF is_foursight(Head(roles))
         THEN <<Head(roles)>> \o find_iam_role_arns(Tail(roles))
         ELSE find_iam_role_arns(Tail(roles))

Range(list) == {list[i] : i \in 1..Len(list)}

\* list(set(...)): the elements of the set once each, in any order.
ListsOf(S) == {q \in SeqsUpTo(S, Cardinality(S)) : Len(q) = Cardinality(S) /\ Range(q) = S}

\* roles_to_add without the difference: every Foursight role is to be added.
roles_to_add_all(roles, principals) == Range(roles)

\* set(foursight_role_arns) - set(kms_key_policy_principals); the set of a
\* string is the set of its characters, and no ARN is one of them.
roles_to_add(roles, principals) ==
    IF principals.kind = "list" THEN Range(roles) \ Range(principals.items)
    ELSE Range(roles)

\* ---- the initial policy documents

PrincipalLists == SeqsUpTo(Arns, MaxPrincipals)
RoleLists == SeqsUpTo(Arns, MaxAdditional)

KeyActions == "kms:Encrypt,kms:Decrypt"

Admin == Statement("Enable Admin IAM Policies", ArnString(1), "kms:*")
Selected(aws) == Statement("Allow use of the key", aws, KeyActions)
Grants == Statement("Allow attachment of persistent resources", ArnList(<<3, 2>>),
                    "kms:CreateGrant")
SelectedToo == Statement("Allow use of the key by services", ArnList(<<3, 2>>),
                         KeyActions)

\* The statement the operations amend is second (as in the test's policy),
\* first, the first of two with a matching Sid, holds a single string for
\* principals, or is missing.
Documents ==
    {Document(<<Admin, Selected(ArnList(p))>>) : p \in PrincipalLists} \cup
    {Document(<<Selected(ArnList(p)), Grants>>) : p \in PrincipalLists} \cup
    {Document(<<Admin, Selected(ArnList(p)), SelectedToo>>) : p \in PrincipalLists} \cup
    {Document(<<Admin, Selected(ArnString(a))>>) : a \in Arns} \cup
    {Document(<<Admin, Grants>>)}

NoKmsIn == [op |-> None, sid_pattern |-> None, additional_roles |-> <<>>]
NoKmsOut == [amended |-> FALSE, nadded |-> 0, raised |-> "", exit |-> "",
             asked |-> FALSE, puts |-> 0]

IdleKms ==
    /\ kmsPolicy = policy_dumps(Document(<<>>))
    /\ iamRoles = <<>>
    /\ kmsDoc = Document(<<>>)
    /\ kmsDoc0 = Document(<<>>)
    /\ kmsIn = NoKmsIn
    /\ kmsOut = NoKmsOut
    /\ kmsPc = "idle"

InitKms ==
    /\ \E doc \in Documents :
          /\ kmsPolicy = policy_dumps(doc)
          /\ kmsDoc = doc
          /\ kmsDoc0 = doc
    /\ iamRoles = <<>>
    /\ kmsIn = NoKmsIn
    /\ kmsOut = NoKmsOut
    /\ kmsPc = "idle"

\* A caller amends the document it holds (the policy as fetched by
\* get_kms_key_policy) with a list of roles.
KmsAmend ==
    /\ kmsPc = "idle"
    /\ \E additional_roles \in RoleLists :
          LET doc == policy_loads(kmsPolicy)
              r == amend_kms_key_policy(doc, SidPattern, additional_roles)
          IN /\ kmsIn' = [op |-> "amend", sid_pattern |-> SidPattern,
                          additional_roles |-> additional_roles]
             /\ kmsDoc0' = doc
             /\ kmsDoc' = r.doc
             /\ kmsOut' = [NoKmsOut EXCEPT !.amended = TRUE, !.nadded = r.nadded,
                                           !.raised = r.raised]
    /\ kmsPc' = "done"
    /\ UNCHANGED <<kmsPolicy, iamRoles>>
    /\ UNCHANGED notKms

\* update_kms_policy, lines 53-86: the Foursight roles are looked up, the policy
\* is fetched, the roles missing from the statement's principals are computed.
\* The driver exits when there is no role or nothing to add, raises when the
\* principals are None (set(None)), and otherwise asks for confirmation.
KmsDriverStart ==
    /\ kmsPc = "idle"
    /\ \E roles \in RoleLists :
          LET foursight_role_arns == find_iam_role_arns(roles)
              doc == policy_loads(kmsPolicy)
              principals == get_kms_key_policy_principals(doc, SidPattern)
              missing == roles_to_add(foursight_role_arns, principals)
              stop(exit, raised) ==
                  /\ kmsIn' = [op |-> "driver", sid_pattern |-> SidPattern,
                               additional_roles |-> <<>>]
                  /\ kmsOut' = [NoKmsOut EXCEPT !.exit = exit, !.raised = raised]
                  /\ kmsPc' = "done"
          IN /\ iamRoles' = roles
             /\ IF foursight_role_arns = <<>>
                THEN /\ stop("No Foursight AWS IAM roles found.", "")
                     /\ UNCHANGED <<kmsDoc, kmsDoc0>>
                ELSE /\ kmsDoc' = doc
                     /\ kmsDoc0' = doc
                     /\ IF principals.kind = "None" THEN stop("", "TypeError")
                        ELSE IF missing = {} THEN stop("Nothing to do.", "")
                        ELSE \E foursight_roles_to_add \in ListsOf(missing) :
                                /\ kmsIn' = [op |-> "driver", sid_pattern |-> SidPattern,
                                             additional_roles |-> foursight_roles_to_add]
                                /\ kmsOut' = NoKmsOut
                                /\ kmsPc' = "confirm"
    /\ UNCHANGED kmsPolicy
    /\ UNCHANGED notKms

\* update_kms_policy, lines 86-92: on yes the document is amended in place and
\* written with update_kms_key_policy (json.dumps, put_key_policy), which may
\* fail; on any other answer the driver exits.
KmsDriverAnswer ==
    /\ kmsPc = "confirm"
    /\ \E yes \in BOOLEAN, put \in BOOLEAN :
          LET r == amend_kms_key_policy(kmsDoc, kmsIn.sid_pattern, kmsIn.additional_roles)
          IN IF ~yes
             THEN /\ put
                  /\ kmsOut' = [kmsOut EXCEPT !.asked = TRUE,
                                              !.exit = "Exiting without doing anything."]
                  /\ UNCHANGED <<kmsDoc, kmsPolicy>>
             ELSE /\ kmsDoc' = r.doc
                  /\ IF r.raised # ""
                     THEN /\ put
                          /\ kmsOut' = [kmsOut EXCEPT !.asked = TRUE, !.amended = TRUE,
                                                      !.raised = r.raised]
                          /\ UNCHANGED kmsPolicy
                     ELSE /\ kmsOut' = [kmsOut EXCEPT
                                          !.asked = TRUE, !.amended = TRUE,
                                          !.nadded = r.nadded, !.puts = @ + 1,
                                          !.raised = IF put THEN "" ELSE "ClientError"]
                          /\ kmsPolicy' = IF put THEN policy_dumps(r.doc) ELSE kmsPolicy
    /\ kmsPc' = "done"
    /\ UNCHANGED <<iamRoles, kmsDoc0, kmsIn>>
    /\ UNCHANGED notKms

NextKms ==
    \/ KmsAmend
    \/ KmsDriverStart
    \/ KmsDriverAnswer

(***************************************************************************)
(*      Aws.find_security_group_rule and Aws.get_security_group_rules      *)
(***************************************************************************)

\* An Optional value that is not a string: <<>> is None, <<x>> is x. So an
\* Optional[list] is <<>> (None), << <<>> >> (the empty list) or << rules >>,
\* and what dict.get gives for a port or for IsEgress is <<>> when the key is
\* absent.
Nothing == <<>>
Some(x) == <<x>>

\* Longest list of rules of the security group.
MaxRules == 2

\* A rule as describe_security_group_rules returns it.
ExistingRule(protocol, from, to, egress, cidr, description) ==
    [IpProtocol |-> protocol, FromPort |-> from, ToPort |-> to, IsEgress |-> egress,
     CidrIpv4 |-> cidr, Description |-> description]

\* A rule as passed to authorize_security_group_ingress / _egress; IpRanges is
\* Nothing when the key is absent.
DesiredRule(protocol, from, to, ranges) ==
    [IpProtocol |-> protocol, FromPort |-> from, ToPort |-> to, IpRanges |-> ranges]

IpRange(cidr, description) == [CidrIp |-> cidr, Description |-> description]

\* The inbound rule tcp 22-22 from 10.0.0.0/8, and the rules that differ from
\* it in one field (a different value, or the field absent).
ExistingRules ==
    {ExistingRule("tcp", Some(22), Some(22), Some(FALSE), "10.0.0.0/8", "ssh"),
     ExistingRule("tcp", Some(22), Some(22), Some(FALSE), "10.0.0.0/8", "other text"),
     ExistingRule("udp", Some(22), Some(22), Some(FALSE), "10.0.0.0/8", "ssh"),
     ExistingRule("tcp", Some(80), Some(22), Some(FALSE), "10.0.0.0/8", "ssh"),
     ExistingRule("tcp", Some(22), Some(80), Some(FALSE), "10.0.0.0/8", "ssh"),
     ExistingRule("tcp", Some(22), Some(22), Some(TRUE), "10.0.0.0/8", "ssh"),
     ExistingRule("tcp", Some(22), Some(22), Nothing, "10.0.0.0/8", "ssh"),
     ExistingRule("tcp", Some(22), Some(22), Some(FALSE), "0.0.0.0/0", "ssh"),
     ExistingRule("tcp", Some(22), Some(22), Some(FALSE), None, "ssh"),
     ExistingRule("tcp", Nothing, Nothing, Some(TRUE), None, "ssh")}

\* The same rule as a desired rule, with one range, none, two, no IpRanges key,
\* a range without CidrIp, another description, and without ports.
DesiredRules ==
    {DesiredRule("tcp", Some(22), Some(22), Some(<<IpRange("10.0.0.0/8", "ssh")>>)),
     DesiredRule("tcp", Some(22), Some(22), Some(<<IpRange("10.0.0.0/8", "new text")>>)),
     DesiredRule("tcp", Some(22), Some(22), Some(<<>>)),
     DesiredRule("tcp", Some(22), Some(22),
                 Some(<<IpRange("10.0.0.0/8", "ssh"), IpRange("0.0.0.0/0", "ssh")>>)),
     DesiredRule("tcp", Some(22), Some(22), Nothing),
     DesiredRule("tcp", Some(22), Some(22), Some(<<IpRange(None, "ssh")>>)),
     DesiredRule("tcp", Nothing, Nothing, Some(<<IpRange(None, "ssh")>>))}

\* The test of lines 448-455 without the comparison of the direction.
rule_matches_any_direction(existing_rule, security_group_rule, outbound) ==
    /\ security_group_rule.IpProtocol = existing_rule.IpProtocol
    /\ security_group_rule.FromPort = existing_rule.FromPort
    /\ security_group_rule.ToPort = existing_rule.ToPort
    /\ LET ip_ranges == security_group_rule.IpRanges
       IN /\ ip_ranges # Nothing
          /\ Len(ip_ranges[1]) = 1
          /\ ip_ranges[1][1].CidrIp = existing_rule.CidrIpv4

\* The test of lines 448-455 on one existing rule.
rule_matches(existing_rule, security_group_rule, outbound) ==
    /\ security_group_rule.IpProtocol = existing_rule.IpProtocol
    /\ security_group_rule.FromPort = existing_rule.FromPort
    /\ security_group_rule.ToPort = existing_rule.ToPort
    /\ Some(outbound) = existing_rule.IsEgress
    /\ LET ip_ranges == security_group_rule.IpRanges
       IN /\ ip_ranges # Nothing
          /\ Len(ip_ranges[1]) = 1
          /\ ip_ranges[1][1].CidrIp = existing_rule.CidrIpv4

\* The loop of find_security_group_rule: the index of the rule returned, 0 for
\* None.
RECURSIVE find_from(_, _, _, _)
find_from(rules, security_group_rule, outbound, i) ==
    IF i > Len(rules) THEN 0
    ELSE IF rule_matches(rules[i], security_group_rule, outbound) THEN i
    ELSE find_from(rules, security_group_rule, outbound, i + 1)

\* find_security_group_rule: "existing_security_group_rules or []" is the empty
\* list for None.
find_security_group_rule(existing_security_group_rules, security_group_rule, outbound) ==
    LET rules == IF existing_security_group_rules = Nothing THEN <<>>
                 ELSE existing_security_group_rules[1]
    IN find_from(rules, security_group_rule, outbound, 1)

\* ec2.describe_security_group_rules filtered by group-id: the rules of the
\* group, none for a group that does not exist.
describe_security_group_rules(groups) ==
    [SecurityGroupRules |-> IF groups = Nothing THEN <<>> ELSE groups[1]]

\* The list comprehension of lines 331-333.
RECURSIVE rules_of_direction(_, _)
rules_of_direction(rules, outbound) ==
    IF rules = <<>> THEN <<>>
    ELSE IF Some(outbound) = Head(rules).IsEgress
         THEN <<Head(rules)>> \o rules_of_direction(Tail(rules), outbound)
         ELSE rules_of_direction(Tail(rules), outbound)

\* get_security_group_rules without the test of lines 334-335.
get_security_group_rules_unchecked(response, outbound) ==
    Some(rules_of_direction(response.SecurityGroupRules, outbound))

\* get_security_group_rules on the response of describe_security_group_rules.
get_security_group_rules(response, outbound) ==
    IF response.SecurityGroupRules = <<>> THEN Nothing
    ELSE LET security_group_rules == rules_of_direction(response.SecurityGroupRules,
                                                        outbound)
         IN IF security_group_rules = <<>> THEN Nothing
            ELSE Some(security_group_rules)

NoSgIn == [op |-> None, outbound |-> FALSE, existing |-> Nothing, rule |-> Nothing]
NoSgOut == [found |-> 0, rules |-> Nothing]

IdleSg ==
    /\ sgGroups = Nothing
    /\ sgIn = NoSgIn
    /\ sgOut = NoSgOut
    /\ sgPc = "idle"

\* The security group does not exist, or exists with up to MaxRules rules.
InitSg ==
    /\ sgGroups \in {Nothing} \cup {Some(rules) : rules \in SeqsUpTo(ExistingRules, MaxRules)}
    /\ sgIn = NoSgIn
    /\ sgOut = NoSgOut
    /\ sgPc = "idle"

\* A caller looks a desired rule up in the rules of the group (None when the
\* group does not exist).
SgFind ==
    /\ sgPc = "idle"
    /\ \E security_group_rule \in DesiredRules, outbound \in BOOLEAN :
          /\ sgIn' = [op |-> "find", outbound |-> outbound, existing |-> sgGroups,
                      rule |-> Some(security_group_rule)]
          /\ sgOut' = [NoSgOut EXCEPT !.found =
                          find_security_group_rule(sgGroups, security_group_rule, outbound)]
    /\ sgPc' = "done"
    /\ UNCHANGED sgGroups
    /\ UNCHANGED notSg

\* A caller lists the inbound or outbound rules of the group.
SgList ==
    /\ sgPc = "idle"
    /\ \E outbound \in BOOLEAN :
          /\ sgIn' = [NoSgIn EXCEPT !.op = "list", !.outbound = outbound]
          /\ sgOut' = [NoSgOut EXCEPT !.rules =
                          get_security_group_rules(describe_security_group_rules(sgGroups),
                                                   outbound)]
    /\ sgPc' = "done"
    /\ UNCHANGED sgGroups
    /\ UNCHANGED notSg

\* The caller has the result and may call again.
SgReturn ==
    /\ sgPc = "done"
    /\ sgPc' = "idle"
    /\ sgIn' = NoSgIn
    /\ sgOut' = NoSgOut
    /\ UNCHANGED sgGroups
    /\ UNCHANGED notSg

NextSg ==
    \/ SgFind
    \/ SgList
    \/ SgReturn

(***************************************************************************)
(*                       Aws.create_user_access_key                        *)
(***************************************************************************)

\* Most users iam.users.all() lists, and most access keys a user has (the IAM
\* quota: create_access_key fails for a user that has that many).
MaxUsers == 2
MaxKeys == 2

\* One user name is a prefix of the other.
UserNames == {"deploy", "deploy-admin"}

StillCreatePrompt == "Do you still want to create a new access key?"
CreatePrompt == "Create AWS security access key pair for AWS IAM user?"

\* The list comprehension of line 197: the positions of the users whose name is
\* user_name.
users_named(users, user_name) ==
    {i \in 1..Len(users) : users[i] = user_name}

\* users_resolved that takes the first of several users.
users_resolved_first(users, user_name) ==
    LET user == users_named(users, user_name)
    IN IF user = {} THEN 0
       ELSE CHOOSE i \in user : \A j \in user : i <= j

\* Lines 198-204: the position of the one user of that name, 0 when there is
\* none or more than one (the call then returns None, None).
users_resolved(users, user_name) ==
    LET user == users_named(users, user_name)
    IN IF user = {} THEN 0
       ELSE IF Cardinality(user) > 1 THEN 0
       ELSE CHOOSE i \in user : TRUE

\* after_first_answer that goes on whatever the answer.
after_first_answer_ignored(yes) == "create"

\* Lines 219-221: after the first confirmation the call goes on to the second
\* or returns None, None.
after_first_answer(yes) == IF yes THEN "create" ELSE "return None"

NoKeyIn == [user_name |-> None, user |-> 0, existing_keys |-> 0]
NoKeyOut == [result |-> None, prompts |-> <<>>, answers |-> <<>>, created |-> 0,
             scope |-> FALSE]

IdleKey ==
    /\ iamUsers = <<>>
    /\ iamKeys = <<>>
    /\ keyPc = "idle"
    /\ keyIn = NoKeyIn
    /\ keyOut = NoKeyOut

\* IAM lists up to MaxUsers users, each with up to MaxKeys access keys. The
\* names of the list need not differ: the list is what the service returns.
InitKey ==
    /\ iamUsers \in SeqsUpTo(UserNames, MaxUsers)
    /\ iamKeys \in [1..Len(iamUsers) -> 0..MaxKeys]
    /\ keyPc = "idle"
    /\ keyIn = NoKeyIn
    /\ keyOut = NoKeyOut

\* create_user_access_key up to its first question (lines 195-218): the scope
\* is established (or establish_credentials raises), the user is resolved, the
\* user's keys are listed; with keys the first confirmation is asked, without
\* them the second.
KeyCall ==
    /\ keyPc = "idle"
    /\ \E user_name \in UserNames, scope \in BOOLEAN :
          LET user == users_resolved(iamUsers, user_name)
              existing_keys == IF user = 0 THEN 0 ELSE iamKeys[user]
          IN /\ keyIn' = [user_name |-> user_name, user |-> user,
                          existing_keys |-> existing_keys]
             /\ IF ~scope
                THEN /\ keyOut' = [NoKeyOut EXCEPT !.result = "raised"]
                     /\ keyPc' = "done"
                ELSE IF user = 0
                THEN /\ keyOut' = [NoKeyOut EXCEPT !.result = "None, None", !.scope = TRUE]
                     /\ keyPc' = "done"
                ELSE /\ keyOut' = [NoKeyOut EXCEPT !.scope = TRUE]
                     /\ keyPc' = IF existing_keys > 0 THEN "existing" ELSE "create"
    /\ UNCHANGED <<iamUsers, iamKeys>>
    /\ UNCHANGED notKey

\* Lines 218-220: the operator answers "Do you still want to create a new
\* access key?"; an exception of yes_or_no (end of input) reaches the caller.
KeyAnswerExisting ==
    /\ keyPc = "existing"
    /\ \E answer \in {"yes", "no", "raised"} :
          LET asked == [keyOut EXCEPT !.prompts = Append(@, StillCreatePrompt),
                                      !.answers = Append(@, answer)]
          IN IF answer = "raised"
             THEN keyOut' = [asked EXCEPT !.result = "raised"] /\ keyPc' = "done"
             ELSE IF after_first_answer(answer = "yes") = "create"
             THEN keyOut' = asked /\ keyPc' = "create"
             ELSE keyOut' = [asked EXCEPT !.result = "None, None"] /\ keyPc' = "done"
    /\ UNCHANGED <<iamUsers, iamKeys, keyIn>>
    /\ UNCHANGED notKey

\* Lines 221-227: the operator answers the confirmation of the creation; on yes
\* create_access_key_pair is called, which fails at the quota and may fail
\* otherwise, its exception reaching the caller.
KeyAnswerCreate ==
    /\ keyPc = "create"
    /\ \E answer \in {"yes", "no", "raised"}, created \in BOOLEAN :
          LET asked == [keyOut EXCEPT !.prompts = Append(@, CreatePrompt),
                                      !.answers = Append(@, answer)]
          IN IF answer = "yes"
             THEN IF created /\ iamKeys[keyIn.user] < MaxKeys
                  THEN /\ iamKeys' = [iamKeys EXCEPT ![keyIn.user] = @ + 1]
                       /\ keyOut' = [asked EXCEPT !.result = "key pair",
                                                  !.created = @ + 1]
                  ELSE /\ iamKeys' = iamKeys
                       /\ keyOut' = [asked EXCEPT !.result = "raised"]
             ELSE /\ created
                  /\ iamKeys' = iamKeys
                  /\ keyOut' = [asked EXCEPT !.result =
                                   IF answer = "no" THEN "None, None" ELSE "raised"]
    /\ keyPc' = "done"
    /\ UNCHANGED <<iamUsers, keyIn>>
    /\ UNCHANGED notKey

\* The caller has the result and may call again.
KeyReturn ==
    /\ keyPc = "done"
    /\ keyPc' = "idle"
    /\ keyIn' = NoKeyIn
    /\ keyOut' = NoKeyOut
    /\ UNCHANGED <<iamUsers, iamKeys>>
    /\ UNCHANGED notKey

NextKey ==
    \/ KeyCall
    \/ KeyAnswerExisting
    \/ KeyAnswerCreate
    \/ KeyReturn

(***************************************************************************)
(*        Two AwsContext objects used by two threads of one process        *)
(***************************************************************************)

\* Calls of establish_credentials per object.
MaxCalls == 2

Instances == {"a", "b"}

\* The file system of the process: one credentials directory with both files.
ProcDirs == {CredentialsDir}
ProcFiles == {path_join(CredentialsDir, "credentials"), path_join(CredentialsDir, "config")}

\* An object made from key material and a region, one made from the directory,
\* and one made from a directory that is not there.
ProcContexts ==
    {[aws_access_key_id |-> "AKIAEXAMPLE", aws_secret_access_key |-> "secret-access-key",
      aws_region |-> "us-east-1", aws_session_token |-> None,
      aws_credentials_dir |-> None, reset_boto3_default_session |-> TRUE],
     [aws_access_key_id |-> None, aws_secret_access_key |-> None,
      aws_region |-> None, aws_session_token |-> None,
      aws_credentials_dir |-> CredentialsDir, reset_boto3_default_session |-> TRUE],
     [aws_access_key_id |-> None, aws_secret_access_key |-> None,
      aws_region |-> None, aws_session_token |-> None,
      aws_credentials_dir |-> "/missing", reset_boto3_default_session |-> TRUE]}

ProcAmbients == {[name \in EnvNames |-> None], [name \in EnvNames |-> "ambient"]}

\* Lines 118-120 without the assignment of line 120.
default_session_reset_kept(ctx) == ctx

\* Line 120: the object will not reset the default session again.
default_session_reset(ctx) == [ctx EXCEPT !.reset_boto3_default_session = FALSE]

\* session.get_credentials() of lines 149-150: boto3 takes the key pair of the
\* environment, else the one of the shared credentials file, else there is none.
session_credentials(env, files) ==
    IF env["AWS_ACCESS_KEY_ID"] # None /\ env["AWS_SECRET_ACCESS_KEY"] # None
    THEN Some([access_key |-> env["AWS_ACCESS_KEY_ID"],
               secret_key |-> env["AWS_SECRET_ACCESS_KEY"]])
    ELSE IF env["AWS_SHARED_CREDENTIALS_FILE"] \in files
    THEN Some([access_key |-> "key of " \o env["AWS_SHARED_CREDENTIALS_FILE"],
               secret_key |-> "secret of " \o env["AWS_SHARED_CREDENTIALS_FILE"]])
    ELSE Nothing

\* session.region_name: AWS_DEFAULT_REGION, else the region of the config file.
session_region(env, files) ==
    IF env["AWS_DEFAULT_REGION"] # None THEN env["AWS_DEFAULT_REGION"]
    ELSE IF env["AWS_CONFIG_FILE"] \in files
    THEN "region of " \o env["AWS_CONFIG_FILE"]
    ELSE None

\* Lines 149-168: the Credentials object made from the session and the caller
\* identity, which are what the environment of that moment gives.
Credentials(ctx, env, files) ==
    LET session == session_credentials(env, files)[1]
    IN [credentials_dir |->
            IF Truthy(ctx.aws_access_key_id) /\ Truthy(ctx.aws_secret_access_key) THEN None
            ELSE IF Truthy(ctx.aws_session_token) THEN None
            ELSE ctx.aws_credentials_dir,
        access_key_id |-> session.access_key,
        secret_access_key |-> session.secret_key,
        region |-> session_region(env, files),
        account_number |-> "account of " \o session.access_key,
        user_arn |-> "arn of " \o session.access_key]

\* The finally clause nulling what the object holds.
credentials_discarded(held) == Nothing

\* Lines 184-186: the finally clause restores the environment and leaves the
\* attributes of the object as they are.
credentials_after_exit(held) == held

\* The list without the object.
RECURSIVE without(_, _)
without(list, i) ==
    IF list = <<>> THEN <<>>
    ELSE IF Head(list) = i THEN without(Tail(list), i)
    ELSE <<Head(list)>> \o without(Tail(list), i)

IdleProc ==
    /\ procEnviron = [name \in EnvNames |-> None]
    /\ procDefault = None
    /\ procCtx = <<>>
    /\ procPc = <<>>
    /\ procSaved = <<>>
    /\ procYield = <<>>
    /\ procHeld = <<>>
    /\ procAmbient = procEnviron
    /\ procCalls = <<>>
    /\ procResets = <<>>
    /\ procKeptAt = <<>>
    /\ procActive = <<>>
    /\ procOwner = None
    /\ procSavedOwner = <<>>

\* Both objects are constructed; no scope was entered yet.
InitProc ==
    /\ procEnviron \in ProcAmbients
    /\ procDefault = "ambient"
    /\ procCtx \in [Instances -> ProcContexts]
    /\ procPc = [i \in Instances |-> "idle"]
    /\ procSaved = [i \in Instances |-> NoSaved]
    /\ procYield = [i \in Instances |-> Nothing]
    /\ procHeld = [i \in Instances |-> Nothing]
    /\ procAmbient = procEnviron
    /\ procCalls = [i \in Instances |-> 0]
    /\ procResets = [i \in Instances |-> <<>>]
    /\ procKeptAt = [i \in Instances |-> 0]
    /\ procActive = <<>>
    /\ procOwner = None
    /\ procSavedOwner = [i \in Instances |-> None]

\* What leaving the scope does, by the finally clause (lines 184-186): the
\* environment is restored from this call's saved_environ.
LeaveScope(i, how) ==
    /\ procEnviron' = restore_environ(procSaved[i], procEnviron)
    /\ procSaved' = [procSaved EXCEPT ![i] = NoSaved]
    /\ procYield' = [procYield EXCEPT ![i] = Nothing]
    /\ procHeld' = [procHeld EXCEPT ![i] = credentials_after_exit(@)]
    /\ procPc' = [procPc EXCEPT ![i] = how]
    /\ procActive' = without(procActive, i)
    /\ procOwner' = procSavedOwner[i]
    /\ procSavedOwner' = [procSavedOwner EXCEPT ![i] = None]

\* A thread calls establish_credentials of its object (lines 101-146): the
\* environment is saved and cleared, the default session is reset if the
\* object has not done so, the environment is set up; an exception in the
\* setup runs the finally clause.
ProcEnter(i) ==
    /\ procPc[i] = "idle"
    /\ procCalls[i] < MaxCalls
    /\ LET cleared == unset_environ(CredentialVariables, procEnviron)
           setup == setup_environ(procCtx[i], ProcDirs, ProcFiles, cleared.environ)
           reset == procCtx[i].reset_boto3_default_session
       IN /\ procCalls' = [procCalls EXCEPT ![i] = @ + 1]
          /\ procDefault' = IF reset THEN None ELSE procDefault
          /\ procResets' = IF reset THEN [procResets EXCEPT ![i] = Append(@, procCalls[i] + 1)]
                           ELSE procResets
          /\ procCtx' = IF reset THEN [procCtx EXCEPT ![i] = default_session_reset(@)]
                        ELSE procCtx
          /\ IF setup.raised = ""
             THEN /\ procEnviron' = setup.environ
                  /\ procSaved' = [procSaved EXCEPT ![i] = cleared.saved]
                  /\ procPc' = [procPc EXCEPT ![i] = "session"]
                  /\ procActive' = Append(procActive, i)
                  /\ procSavedOwner' = [procSavedOwner EXCEPT ![i] = procOwner]
                  /\ procOwner' = i
             ELSE /\ procEnviron' = restore_environ(cleared.saved, setup.environ)
                  /\ procPc' = [procPc EXCEPT ![i] = "raised"]
                  /\ UNCHANGED <<procSaved, procActive, procOwner, procSavedOwner>>
    /\ UNCHANGED <<procYield, procHeld, procAmbient, procKeptAt>>
    /\ UNCHANGED notProc

\* Lines 149-182: the session and the caller identity are taken from the
\* environment as it is now, and the Credentials object is yielded; without
\* session credentials, or when the identity lookup fails, the call raises.
ProcSession(i) ==
    /\ procPc[i] = "session"
    /\ \E ok \in BOOLEAN :
          IF ok /\ session_credentials(procEnviron, ProcFiles) # Nothing
          THEN /\ procYield' = [procYield EXCEPT ![i] =
                                   Some(Credentials(procCtx[i], procEnviron, ProcFiles))]
               /\ procPc' = [procPc EXCEPT ![i] = "body"]
               /\ procDefault' = IF procDefault = None THEN "scoped" ELSE procDefault
               /\ UNCHANGED <<procEnviron, procSaved, procHeld, procActive, procOwner,
                              procSavedOwner>>
          ELSE /\ LeaveScope(i, "raised")
               /\ UNCHANGED procDefault
    /\ UNCHANGED <<procCtx, procAmbient, procCalls, procResets, procKeptAt>>
    /\ UNCHANGED notProc

\* validate_and_get_aws_credentials, line 129: the body of the scope stores the
\* Credentials object in the object it will return.
ProcKeep(i) ==
    /\ procPc[i] = "body"
    /\ procKeptAt[i] # procCalls[i]
    /\ procHeld' = [procHeld EXCEPT ![i] = procYield[i]]
    /\ procKeptAt' = [procKeptAt EXCEPT ![i] = procCalls[i]]
    /\ UNCHANGED <<procEnviron, procDefault, procCtx, procPc, procSaved, procYield,
                   procAmbient, procCalls, procResets, procActive, procOwner,
                   procSavedOwner>>
    /\ UNCHANGED notProc

\* The body ends, by a return or by an exception.
ProcExit(i) ==
    /\ procPc[i] = "body"
    /\ \E how \in {"exited", "raised"} : LeaveScope(i, how)
    /\ UNCHANGED <<procDefault, procCtx, procAmbient, procCalls, procResets, procKeptAt>>
    /\ UNCHANGED notProc

\* The thread goes on and may call establish_credentials again.
ProcReturn(i) ==
    /\ procPc[i] \in {"exited", "raised"}
    /\ procPc' = [procPc EXCEPT ![i] = "idle"]
    /\ UNCHANGED <<procEnviron, procDefault, procCtx, procSaved, procYield, procHeld,
                   procAmbient, procCalls, procResets, procKeptAt, procActive, procOwner,
                   procSavedOwner>>
    /\ UNCHANGED notProc

NextProc ==
    \/ \E i \in Instances : ProcEnter(i)
    \/ \E i \in Instances : ProcSession(i)
    \/ \E i \in Instances : ProcKeep(i)
    \/ \E i \in Instances : ProcExit(i)
    \/ \E i \in Instances : ProcReturn(i)

(***************************************************************************)
(*                        the display functions                            *)
(***************************************************************************)

\* ---- misc_utils.obfuscate

\* n * "*"
RECURSIVE Stars(_)
Stars(n) == IF n = 0 THEN "" ELSE "*" \o Stars(n - 1)

\* obfuscate that returns the value whatever show is.
obfuscate_never(value, show) == value

obfuscate(value, show) == IF show THEN value ELSE Stars(Len(value))

\* ---- print_secret of update_secret_key_value

\* The value part of the line print_secret prints (None: "has no value"), and
\* whether it asked "Show in plaintext?"; answer is the operator's reply.
print_secret_value(key_name, key_value, show, answer) ==
    IF ~Truthy(key_value) THEN [asked |-> FALSE, shown |-> None]
    ELSE IF should_obfuscate(key_name) /\ ~show
    THEN IF answer = "yes"
         THEN [asked |-> TRUE, shown |-> key_value]
         ELSE [asked |-> TRUE, shown |-> obfuscate(key_value, FALSE)]
    ELSE [asked |-> FALSE, shown |-> key_value]

\* ---- the two lines create_user_access_key prints for a created key pair
created_key_display(key_pair, show) ==
    [id |-> key_pair.id, secret |-> obfuscate(key_pair.secret, show)]

\* ---- what establish_credentials(display=True) prints of the credentials
credentials_display(credentials, show) ==
    [access_key_id |-> credentials.access_key_id,
     secret_access_key |-> obfuscate(credentials.secret_access_key, show),
     region |-> credentials.region]

\* Secret material of the display paths.
SecretMaterial == {"wJalrXUtnFEMI", "K7MDENG/bPxRfiCY"}
KeyPairs == [id : {"AKIAIOSFODNN7"}, secret : SecretMaterial]
DisplayCredentials ==
    [access_key_id : {"AKIAIOSFODNN7"}, secret_access_key : SecretMaterial,
     region : {"us-east-1", None}]
DisplayValues == {None, "", "old.db", "DEACTIVATED:old.db"}

\* ---- key names given to should_obfuscate: up to MaxSegments of these pieces
MaxSegments == 3
NameTokens == {"secret", "secrt", "PASSWORD", "passwd", "Crypt", "_key_id", "_KEY_ID",
               "s3.en", "x"}
KeyNameSegments == SeqsUpTo(NameTokens, MaxSegments)

RECURSIVE Join(_)
Join(segments) ==
    IF segments = <<>> THEN "" ELSE Head(segments) \o Join(Tail(segments))

\* ---- get_security_group_rule_display_value

UpperChar(c) ==
    IF \E i \in 1..Len(LowerCase) : LowerCase[i] = c
    THEN UpperCase[CHOOSE i \in 1..Len(LowerCase) : LowerCase[i] = c]
    ELSE c

\* str.upper
RECURSIVE upper(_)
upper(s) ==
    IF s = "" THEN "" ELSE UpperChar(SubSeq(s, 1, 1)) \o upper(SubSeq(s, 2, Len(s)))

\* f"{port}" of an int
format_port(n) == ToString(n)

\* Lines 585-600. A port is Nothing (the key is absent: dict.get gives None) or
\* Some(n). The comparisons of lines 585 and 587 come first and raise TypeError
\* for None, so the tests for None of lines 589-600 never see None.
port_range(from_port, to_port) ==
    IF to_port = Nothing \/ from_port = Nothing
    THEN [raised |-> TRUE, range |-> None]
    ELSE LET to == IF to_port[1] < 0 THEN "N/A" ELSE format_port(to_port[1])
             from == IF from_port[1] < 0 THEN "N/A" ELSE format_port(from_port[1])
         IN [raised |-> FALSE,
             range |-> IF to = from THEN to ELSE from \o " - " \o to]

\* Lines 545-549.
rule_source_or_destination(rule) ==
    IF Truthy(rule.CidrIpv4) THEN rule.CidrIpv4
    ELSE IF rule.IpRanges # <<>> THEN rule.IpRanges[1]
    ELSE rule.CidrIpv4

\* The parts of the string returned, or raised.
get_security_group_rule_display_value(rule) ==
    LET from_port == rule.FromPort
        to_port == rule.ToPort
        ip_protocol == rule.IpProtocol
        both(n) == from_port = Some(n) /\ to_port = Some(n)
        out(type, protocol, range) ==
            [raised |-> FALSE, type |-> type, protocol |-> protocol, range |-> range,
             source |-> rule_source_or_destination(rule)]
        raise == [raised |-> TRUE, type |-> None, protocol |-> None, range |-> None,
                  source |-> None]
    IN IF ip_protocol = "tcp" /\ both(22) THEN out("SSH", "TCP", format_port(22))
       ELSE IF ip_protocol = "tcp" /\ both(80) THEN out("HTTP", "TCP", format_port(80))
       ELSE IF ip_protocol = "tcp" /\ both(443) THEN out("HTTPS", "TCP", format_port(443))
       ELSE IF ip_protocol = "icmp" /\ to_port = Some(-1)
       THEN LET type == IF from_port = Some(-1) THEN "Custom ICMP - IPv4"
                        ELSE "All ICMP - IPv4"
            IN IF from_port = Some(3) THEN out(type, "Destination Unreachable", "All")
               ELSE IF from_port = Some(4) THEN out(type, "Source Quench", "N/A")
               ELSE IF from_port = Some(8) THEN out(type, "Echo Request", "N/A")
               ELSE IF from_port = Some(11) THEN out(type, "Time Exceeded", "All")
               ELSE IF from_port = Nothing THEN raise
               ELSE IF from_port[1] < 0 THEN out(type, "ICMP", "All")
               ELSE out(type, "ICMP", format_port(from_port[1]))
       ELSE LET type == IF ip_protocol = "tcp" THEN "Custom TCP" ELSE upper(ip_protocol)
                r == port_range(from_port, to_port)
            IN IF r.raised THEN raise ELSE out(type, upper(ip_protocol), r.range)

Ports == {Nothing, Some(-1), Some(8), Some(22), Some(80)}
DisplayRules ==
    [IpProtocol : {"tcp", "udp", "icmp"}, FromPort : Ports, ToPort : Ports,
     CidrIpv4 : {None, "10.0.0.0/16"}, IpRanges : {<<>>, <<"0.0.0.0/0">>}]

\* ---- the state machine: a function is applied, the caller has its result

NoDispIn == [fn |-> None]
NoDispOut == [fn |-> None]

IdleDisplay ==
    /\ dispIn = NoDispIn
    /\ dispOut = NoDispOut
    /\ dispPc = "idle"

DisplaySecret ==
    /\ dispPc = "idle"
    /\ \E key_name \in SecretKeys, key_value \in DisplayValues, show \in BOOLEAN,
          answer \in {"yes", "no"} :
          /\ dispIn' = [fn |-> "print_secret", key_name |-> key_name,
                        key_value |-> key_value, show |-> show, answer |-> answer]
          /\ dispOut' = print_secret_value(key_name, key_value, show, answer)
    /\ dispPc' = "done"
    /\ UNCHANGED notDisp

DisplayCreatedKey ==
    /\ dispPc = "idle"
    /\ \E key_pair \in KeyPairs, show \in BOOLEAN :
          /\ dispIn' = [fn |-> "create_user_access_key", key_pair |-> key_pair,
                        show |-> show]
          /\ dispOut' = created_key_display(key_pair, show)
    /\ dispPc' = "done"
    /\ UNCHANGED notDisp

DisplayEstablished ==
    /\ dispPc = "idle"
    /\ \E credentials \in DisplayCredentials, show \in BOOLEAN :
          /\ dispIn' = [fn |-> "establish_credentials", credentials |-> credentials,
                        show |-> show]
          /\ dispOut' = credentials_display(credentials, show)
    /\ dispPc' = "done"
    /\ UNCHANGED notDisp

DisplayShouldObfuscate ==
    /\ dispPc = "idle"
    /\ \E segments \in KeyNameSegments :
          /\ dispIn' = [fn |-> "should_obfuscate", segments |-> segments,
                        key |-> Join(segments)]
          /\ dispOut' = [result |-> should_obfuscate(Join(segments))]
    /\ dispPc' = "done"
    /\ UNCHANGED notDisp

DisplayRule ==
    /\ dispPc = "idle"
    /\ \E rule \in DisplayRules :
          /\ dispIn' = [fn |-> "get_security_group_rule_display_value", rule |-> rule]
          /\ dispOut' = get_security_group_rule_display_value(rule)
    /\ dispPc' = "done"
    /\ UNCHANGED notDisp

DisplayReturn ==
    /\ dispPc = "done"
    /\ dispIn' = NoDispIn
    /\ dispOut' = NoDispOut
    /\ dispPc' = "idle"
    /\ UNCHANGED notDisp

NextDisplay ==
    \/ DisplaySecret
    \/ DisplayCreatedKey
    \/ DisplayEstablished
    \/ DisplayShouldObfuscate
    \/ DisplayRule
    \/ DisplayReturn

(***************************************************************************)
(*              the operations of one Aws object, call by call             *)
(***************************************************************************)

\* The remote calls each method of Aws issues, in the order of its body.
remote_calls ==
    [get_secret_value |-> <<"secretsmanager.get_secret_value">>,
     update_secret_key_value |-> <<"secretsmanager.get_secret_value",
                                   "secretsmanager.update_secret">>,
     find_iam_user_name |-> <<"iam.users.all">>,
     get_customer_managed_kms_keys |-> <<"kms.list_keys", "kms.describe_key">>,
     get_elasticsearch_endpoint |-> <<"opensearch.list_domain_names",
                                      "opensearch.describe_domain">>,
     create_user_access_key |-> <<"iam.users.all", "iam.list_access_keys",
                                  "iam.create_access_key_pair">>,
     find_iam_role_arns |-> <<"iam.list_roles">>,
     get_kms_key_policy |-> <<"kms.get_key_policy">>,
     update_kms_key_policy |-> <<"kms.put_key_policy">>,
     get_security_group_rules |-> <<"ec2.describe_security_group_rules">>,
     get_inbound_security_group_rules |-> <<"ec2.describe_security_group_rules">>,
     get_outbound_security_group_rules |-> <<"ec2.describe_security_group_rules">>,
     find_security_group_id |-> <<"ec2.describe_security_groups">>,
     create_inbound_security_group_rule |-> <<"ec2.authorize_security_group_ingress">>,
     create_outbound_security_group_rule |-> <<"ec2.authorize_security_group_egress">>,
     delete_inbound_security_group_rule |-> <<"ec2.revoke_security_group_ingress">>,
     delete_outbound_security_group_rule |-> <<"ec2.revoke_security_group_egress">>,
     get_stack_output_value |-> <<"cloudformation.find_stack_output">>,
     get_cors_rules |-> <<"s3.get_bucket_cors">>,
     put_cors_rules |-> <<"s3.put_bucket_cors">>]

Operations == DOMAIN remote_calls

\* A body whose first remote call comes before its with statement.
operation_call_first(op) ==
    <<Head(remote_calls[op]), "with">> \o Tail(remote_calls[op]) \o <<"end with">>

\* The body of a method as the steps it takes: the with statement on
\* super().establish_credentials(), the remote calls inside its block, the end
\* of the block.
operation(op) == <<"with">> \o remote_calls[op] \o <<"end with">>

NoOpIn == [op |-> None, at |-> 0]

IdleOp ==
    /\ opEnviron = [name \in EnvNames |-> None]
    /\ opCtx = None
    /\ opPc = "idle"
    /\ opIn = NoOpIn
    /\ opSaved = NoSaved
    /\ opScope = 0
    /\ opLog = <<>>
    /\ opAmbient = [name \in EnvNames |-> None]
    /\ opOut = None

InitOp ==
    /\ opEnviron \in ProcAmbients
    /\ opCtx \in ProcContexts
    /\ opPc = "idle"
    /\ opIn = NoOpIn
    /\ opSaved = NoSaved
    /\ opScope = 0
    /\ opLog = <<>>
    /\ opAmbient = opEnviron
    /\ opOut = None

\* The step the operation is at.
OpStep == operation(opIn.op)[opIn.at]

\* Leaving the with block, by its end, a return or an exception: the finally
\* clause of establish_credentials restores the environment.
OpLeave(out) ==
    /\ IF opScope > 0
       THEN /\ opEnviron' = restore_environ(opSaved, opEnviron)
            /\ opScope' = opScope - 1
            /\ opSaved' = NoSaved
       ELSE UNCHANGED <<opEnviron, opScope, opSaved>>
    /\ opOut' = out
    /\ opPc' = "done"

\* A method of the object is called.
OpCall ==
    /\ opPc = "idle"
    /\ \E op \in Operations : opIn' = [op |-> op, at |-> 1]
    /\ opPc' = "running"
    /\ opAmbient' = opEnviron
    /\ opLog' = <<>>
    /\ opOut' = None
    /\ UNCHANGED <<opEnviron, opCtx, opSaved, opScope>>
    /\ UNCHANGED notOp

\* The with statement: establish_credentials up to its yield (aws_context.py
\* lines 101-182); an exception of the setup or of the session runs the
\* finally clause and reaches the caller.
OpEnter ==
    /\ opPc = "running"
    /\ OpStep = "with"
    /\ LET cleared == unset_environ(CredentialVariables, opEnviron)
           setup == setup_environ(opCtx, ProcDirs, ProcFiles, cleared.environ)
       IN \E session \in BOOLEAN :
             IF setup.raised = "" /\ session
                /\ session_credentials(setup.environ, ProcFiles) # Nothing
             THEN /\ opEnviron' = setup.environ
                  /\ opSaved' = cleared.saved
                  /\ opScope' = opScope + 1
                  /\ opIn' = [opIn EXCEPT !.at = @ + 1]
                  /\ UNCHANGED <<opPc, opOut>>
             ELSE /\ opEnviron' = restore_environ(cleared.saved, setup.environ)
                  /\ opOut' = "raised"
                  /\ opPc' = "done"
                  /\ UNCHANGED <<opSaved, opScope, opIn>>
    /\ UNCHANGED <<opCtx, opLog, opAmbient>>
    /\ UNCHANGED notOp

\* A remote call of the body: it succeeds and the body goes on, or the body
\* returns after it, or the call raises.
OpRemote ==
    /\ opPc = "running"
    /\ OpStep \notin {"with", "end with"}
    /\ opLog' = Append(opLog, [call |-> OpStep, scope |-> opScope, environ |-> opEnviron])
    /\ \E outcome \in {"goes on", "returned", "raised"} :
          IF outcome = "goes on"
          THEN /\ opIn' = [opIn EXCEPT !.at = @ + 1]
               /\ UNCHANGED <<opEnviron, opSaved, opScope, opPc, opOut>>
          ELSE /\ OpLeave(outcome)
               /\ UNCHANGED opIn
    /\ UNCHANGED <<opCtx, opAmbient>>
    /\ UNCHANGED notOp

\* The end of the with block.
OpEnd ==
    /\ opPc = "running"
    /\ OpStep = "end with"
    /\ OpLeave("returned")
    /\ UNCHANGED <<opCtx, opIn, opLog, opAmbient>>
    /\ UNCHANGED notOp

\* The caller has the outcome and may call again.
OpReturn ==
    /\ opPc = "done"
    /\ opPc' = "idle"
    /\ opIn' = NoOpIn
    /\ opLog' = <<>>
    /\ opOut' = None
    /\ UNCHANGED <<opEnviron, opCtx, opSaved, opScope, opAmbient>>
    /\ UNCHANGED notOp

NextOp ==
    \/ OpCall
    \/ OpEnter
    \/ OpRemote
    \/ OpEnd
    \/ OpReturn

(***************************************************************************)
(*                   scopes nested in one thread                           *)
(***************************************************************************)

\* with a.establish_credentials(): with b.establish_credentials(): ... The
\* with statements of one thread are entered and exited last in, first out; a
\* and b are the same object or two.
MaxDepth == 3

IdleNest ==
    /\ nestEnviron = [name \in EnvNames |-> None]
    /\ nestCtx = <<>>
    /\ nestStack = <<>>
    /\ nestAmbient = [name \in EnvNames |-> None]
    /\ nestLeft = None

InitNest ==
    /\ nestEnviron \in ProcAmbients
    /\ nestCtx \in [Instances -> ProcContexts]
    /\ nestStack = <<>>
    /\ nestAmbient = nestEnviron
    /\ nestLeft = None

\* A with statement on establish_credentials of object i is entered (lines
\* 101-182); an exception of the setup or of the session runs the finally
\* clause, and the block is not entered.
NestEnter(i) ==
    /\ Len(nestStack) < MaxDepth
    /\ LET cleared == unset_environ(CredentialVariables, nestEnviron)
           setup == setup_environ(nestCtx[i], ProcDirs, ProcFiles, cleared.environ)
       IN \E session \in BOOLEAN :
             IF setup.raised = "" /\ session
                /\ session_credentials(setup.environ, ProcFiles) # Nothing
             THEN /\ nestEnviron' = setup.environ
                  /\ nestStack' = Append(nestStack,
                                         [object |-> i, saved_environ |-> cleared.saved])
             ELSE /\ nestEnviron' = restore_environ(cleared.saved, setup.environ)
                  /\ UNCHANGED nestStack
    /\ nestLeft' = None
    /\ UNCHANGED <<nestCtx, nestAmbient>>
    /\ UNCHANGED notNest

\* The innermost block ends (lines 184-186).
NestExit ==
    /\ nestStack # <<>>
    /\ LET top == nestStack[Len(nestStack)]
       IN /\ nestEnviron' = restore_environ(top.saved_environ, nestEnviron)
          /\ nestLeft' = top.object
    /\ nestStack' = SubSeq(nestStack, 1, Len(nestStack) - 1)
    /\ UNCHANGED <<nestCtx, nestAmbient>>
    /\ UNCHANGED notNest

NextNest ==
    \/ \E i \in Instances : NestEnter(i)
    \/ NestExit

StartCtx ==
    InitCtx /\ IdleSecret /\ IdleKms /\ IdleSg /\ IdleKey
    /\ IdleProc /\ IdleDisplay /\ IdleOp /\ IdleNest
SpecCtx == StartCtx /\ [][NextCtx]_vars

StartSecret ==
    IdleCtx /\ InitSecret /\ IdleKms /\ IdleSg /\ IdleKey
    /\ IdleProc /\ IdleDisplay /\ IdleOp /\ IdleNest
SpecSecret == StartSecret /\ [][NextSecret]_vars
SpecSecretExt == StartSecret /\ [][NextSecretExt]_vars

StartKms ==
    IdleCtx /\ IdleSecret /\ InitKms /\ IdleSg /\ IdleKey
    /\ IdleProc /\ IdleDisplay /\ IdleOp /\ IdleNest
SpecKms == StartKms /\ [][NextKms]_vars

StartSg ==
    IdleCtx /\ IdleSecret /\ IdleKms /\ InitSg /\ IdleKey
    /\ IdleProc /\ IdleDisplay /\ IdleOp /\ IdleNest
SpecSg == StartSg /\ [][NextSg]_vars

StartKey ==
    IdleCtx /\ IdleSecret /\ IdleKms /\ IdleSg /\ InitKey
    /\ IdleProc /\ IdleDisplay /\ IdleOp /\ IdleNest
SpecKey == StartKey /\ [][NextKey]_vars

StartProc ==
    IdleCtx /\ IdleSecret /\ IdleKms /\ IdleSg /\ IdleKey
    /\ InitProc /\ IdleDisplay /\ IdleOp /\ IdleNest
SpecProc == StartProc /\ [][NextProc]_vars

StartDisplay ==
    IdleCtx /\ IdleSecret /\ IdleKms /\ IdleSg /\ IdleKey
    /\ IdleProc /\ IdleDisplay /\ IdleOp /\ IdleNest
SpecDisplay == StartDisplay /\ [][NextDisplay]_vars

StartOp ==
    IdleCtx /\ IdleSecret /\ IdleKms /\ IdleSg /\ IdleKey
    /\ IdleProc /\ IdleDisplay /\ InitOp /\ IdleNest
SpecOp == StartOp /\ [][NextOp]_vars

StartNest ==
    IdleCtx /\ IdleSecret /\ IdleKms /\ IdleSg /\ IdleKey
    /\ IdleProc /\ IdleDisplay /\ IdleOp /\ InitNest
SpecNest == StartNest /\ [][NextNest]_vars

(***************************************************************************)
(*                              Properties                                 *)
(***************************************************************************)

\* ---- establish_credentials

ScopeOver == ctxPc \in {"exited", "raised"}

\* C1: once a scope of establish_credentials has exited (normally, by an
\* exception of its body, or by a failure before the body ran), each of the
\* seven credential variables has the value it had immediately before the call,
\* and is unset if it was unset then.
C1_EnvironRestored ==
    ScopeOver => \A name \in EnvNames : environ[name] = environ0[name]

\* A scope whose body wrote a credential variable has exited; before the call
\* one file variable was unset and the access key was set.
C1_Witness ==
    /\ ctxPc = "exited"
    /\ bodyWrote
    /\ environ0["AWS_SHARED_CREDENTIALS_FILE"] = None
    /\ environ0["AWS_ACCESS_KEY_ID"] = "ambient"
    /\ Truthy(self.aws_access_key_id) /\ Truthy(self.aws_secret_access_key)

AllUnset == [name \in EnvNames |-> None]

\* The scope is established and its body has not written the variables itself.
InScope == ctxPc \in {"session", "body"} /\ ~bodyWrote

\* C2: inside the scope the seven credential variables depend only on what the
\* AwsContext was constructed with: they are what the same context establishes
\* from an environment in which all seven are unset, and none carries an
\* ambient value.
C2_ScopeIgnoresAmbient ==
    InScope =>
        /\ environ = established_environ(self, fsDirs, fsFiles, AllUnset).environ
        /\ \A name \in EnvNames : environ[name] # "ambient"

\* A directory-sourced scope is running its body, entered with all seven
\* variables set in the ambient environment.
C2_Witness ==
    /\ ctxPc = "body"
    /\ ~bodyWrote
    /\ \A name \in EnvNames : environ0[name] = "ambient"
    /\ environ["AWS_SHARED_CREDENTIALS_FILE"] = path_join(CredentialsDir, "credentials")

\* The access key id and the secret access key were both given, and a
\* credentials directory with them.
KeyMaterialWithDirectory ==
    /\ Truthy(self.aws_access_key_id)
    /\ Truthy(self.aws_secret_access_key)
    /\ Truthy(self.aws_credentials_dir)

\* The value is a path below the credentials directory of the context.
FromDirectory(value) ==
    /\ value # None
    /\ self.aws_credentials_dir # None
    /\ StartsWith(value, self.aws_credentials_dir)

\* C13 as claimed: with key material and a directory, no credential variable of
\* the scope is derived from the directory, with or without a region.
C13_DirectoryIgnored ==
    InScope /\ KeyMaterialWithDirectory =>
        \A name \in EnvNames : ~FromDirectory(environ[name])

\* C13 as amended: with key material and a directory, the scope has the given
\* access key id and secret access key, and AWS_SHARED_CREDENTIALS_FILE is never
\* taken from the directory; but AWS_CONFIG_FILE is the directory's config file
\* exactly when no region was given and that file exists. No other variable is
\* derived from the directory.
C13_DirectoryGivesConfigOnly ==
    InScope /\ KeyMaterialWithDirectory =>
        LET aws_config_file == path_join(self.aws_credentials_dir, "config")
        IN /\ environ["AWS_ACCESS_KEY_ID"] = self.aws_access_key_id
           /\ environ["AWS_SECRET_ACCESS_KEY"] = self.aws_secret_access_key
           /\ environ["AWS_SHARED_CREDENTIALS_FILE"] = "/dev/null"
           /\ environ["AWS_CONFIG_FILE"] =
                 IF ~Truthy(self.aws_region) /\ aws_config_file \in fsFiles
                 THEN aws_config_file ELSE "/dev/null"
           /\ \A name \in EnvNames \ {"AWS_CONFIG_FILE"} : ~FromDirectory(environ[name])

\* The body runs in a scope made from key material, with no region, whose
\* directory holds both files: the config file of the directory is in force.
C13_Witness ==
    /\ ctxPc = "body"
    /\ ~bodyWrote
    /\ KeyMaterialWithDirectory
    /\ ~Truthy(self.aws_region)
    /\ path_join(self.aws_credentials_dir, "credentials") \in fsFiles
    /\ environ["AWS_CONFIG_FILE"] = path_join(self.aws_credentials_dir, "config")

\* The context has no usable credential source: neither key material nor a
\* session token, and no directory, or a directory that is not there, or one
\* without a credentials file.
SourceUnusable ==
    /\ ~(Truthy(self.aws_access_key_id) /\ Truthy(self.aws_secret_access_key))
    /\ ~Truthy(self.aws_session_token)
    /\ \/ ~Truthy(self.aws_credentials_dir)
       \/ self.aws_credentials_dir \notin fsDirs
       \/ path_join(self.aws_credentials_dir, "credentials") \notin fsFiles

\* C14: a call of establish_credentials on a context without a usable source
\* ends in an error: it never gets to the creation of the boto3 session or to
\* the caller-identity lookup, its body never runs, and the default session is
\* not created by it.
C14_FailsBeforeRemoteCall ==
    SourceUnusable =>
        /\ ctxPc \in {"idle", "raised"}
        /\ boto3Default # "scoped"

\* A directory-sourced context whose directory has a config file but no
\* credentials file has raised.
C14_Witness ==
    /\ ctxPc = "raised"
    /\ SourceUnusable
    /\ self.aws_credentials_dir \in fsDirs
    /\ path_join(self.aws_credentials_dir, "config") \in fsFiles

\* ---- update_secret_key_value

\* The record stored under the call's secret name, read as json.loads reads it.
StoredRecord == json_loads(secretStore[secArgs.name])

\* The same, as it was when the call started.
RecordAtCall == json_loads(secTrace.store0[secArgs.name])

Returned(result) == secPc = "done" /\ secResult = result

\* C3: when update_secret_key_value returns True the stored record maps the key
\* to the target if the target is not None, and to "DEACTIVATED:" + v if it is
\* None, v being the key's previous value, which did not begin with
\* "DEACTIVATED:".
C3_ReturnedTrueStoresTarget ==
    Returned("True") =>
        LET v == dict_get(RecordAtCall, secArgs.key)
        IN IF secArgs.value # None
           THEN dict_get(StoredRecord, secArgs.key) = secArgs.value
           ELSE /\ v # None
                /\ ~StartsWith(v, DEACTIVATED_SECRET_VALUE_PREFIX)
                /\ dict_get(StoredRecord, secArgs.key) =
                       DEACTIVATED_SECRET_VALUE_PREFIX \o v

\* A deactivation has returned True.
C3_Witness ==
    /\ Returned("True")
    /\ secArgs.value = None
    /\ dict_get(StoredRecord, secArgs.key) = "DEACTIVATED:old.db"

\* The target state of the current call held when the call started.
TargetHeld ==
    /\ secPc \in {"confirm", "done"}
    /\ secArgs.name \in DOMAIN secTrace.store0
    /\ LET current == dict_get(RecordAtCall, secArgs.key)
       IN \/ secArgs.value # None /\ current = secArgs.value
          \/ /\ secArgs.value = None
             /\ current # None
             /\ StartsWith(current, DEACTIVATED_SECRET_VALUE_PREFIX)

\* The current call directly follows a call with the same key and target that
\* returned True.
RepeatsSuccess ==
    /\ secPc \in {"confirm", "done"}
    /\ secPrev # NoPrev
    /\ secPrev.key = secArgs.key
    /\ secPrev.value = secArgs.value

WriteConfirmationAsked ==
    \E i \in 1..Len(secTrace.prompts) : secTrace.prompts[i] = "Are you sure?"

\* C4: a call whose target state already holds (the target equals the current
\* value, or the target is None and the current value begins with
\* "DEACTIVATED:"), and so the call that repeats a successful one, never
\* reaches the write confirmation, issues no write, leaves the record as it
\* was, and returns False once its credential scope is established.
C4_NothingToDo ==
    (TargetHeld \/ RepeatsSuccess) =>
        /\ secPc = "done"
        /\ ~WriteConfirmationAsked
        /\ secTrace.writes = 0
        /\ secretStore = secTrace.store0
        /\ secResult # "True"
        /\ (secTrace.scope => secResult = "False")

\* The call repeats the deactivation that has just returned True, and has
\* returned False.
C4_Witness ==
    /\ RepeatsSuccess
    /\ secArgs.value = None
    /\ secTrace.scope
    /\ Returned("False")

\* C5: the write is issued only after this call's "Are you sure ..."
\* confirmation was asked and answered yes; on any other answer no write is
\* issued, the record is unchanged and the call returns False.
C5_WriteOnlyAfterYes ==
    /\ secTrace.writes > 0 =>
          /\ secTrace.answer = "yes"
          /\ secTrace.prompts[Len(secTrace.prompts)] = "Are you sure?"
    /\ secPc # "idle" /\ secretStore # secTrace.store0 =>
          secPc = "done" /\ secTrace.answer = "yes"
    /\ secPc = "done" /\ secTrace.answer \in {"no", "raised"} =>
          /\ secTrace.writes = 0
          /\ secretStore = secTrace.store0
          /\ secResult = "False"

\* The operator has declined the confirmation of an update.
C5_Witness ==
    /\ Returned("False")
    /\ secTrace.answer = "no"
    /\ secLocal.action = "update"

\* C6: after a successful call every key other than the call's key is in the
\* stored record with exactly the value it had in the record the call fetched,
\* and a key that was not there is still not there.
C6_OtherKeysKept ==
    Returned("True") =>
        \A key \in SecretKeys \ {secArgs.key} :
            dict_get(StoredRecord, key) = dict_get(secLocal.fetched, key)

\* A key was created beside another key, which the fetched record held.
C6_Witness ==
    /\ Returned("True")
    /\ secLocal.action = "create"
    /\ \E key \in SecretKeys \ {secArgs.key} : dict_get(secLocal.fetched, key) = "old.db"

\* The call names a secret that was not in the store when it started.
SecretMissing ==
    /\ secPc \in {"confirm", "done"}
    /\ secArgs.name \notin DOMAIN secTrace.store0

\* C18: a call of update_secret_key_value for a secret that does not exist asks
\* nothing, writes nothing, leaves the store without that secret, and, its
\* credential scope being established, returns False rather than raising.
C18_MissingSecretReturnsFalse ==
    SecretMissing =>
        /\ secPc = "done"
        /\ secTrace.prompts = <<>>
        /\ secTrace.writes = 0
        /\ secArgs.name \notin DOMAIN secretStore
        /\ (secTrace.scope => secResult = "False")

\* The call found no secret and has returned False in its scope.
C18_Witness ==
    /\ SecretMissing
    /\ secTrace.scope
    /\ Returned("False")
    /\ secArgs.value = "new.db"

\* The call issued update_secret and the store is as it was: the write failed.
WriteFailed ==
    /\ secPc = "done"
    /\ secTrace.writes > 0
    /\ secretStore = secTrace.store0

Declined == secPc = "done" /\ secTrace.answer = "no"

SelectedIndex(doc, sid_pattern) ==
    IF \E i \in 1..Len(doc.Statement) : StartsWith(doc.Statement[i].Sid, sid_pattern)
    THEN CHOOSE i \in 1..Len(doc.Statement) :
            /\ StartsWith(doc.Statement[i].Sid, sid_pattern)
            /\ \A j \in 1..(i - 1) : ~StartsWith(doc.Statement[j].Sid, sid_pattern)
    ELSE 0

IsSorted(list) == \A i \in 1..(Len(list) - 1) : list[i] <= list[i + 1]

\* amend_kms_key_policy has run on a document whose selected statement holds a
\* list of principals.
AmendedList ==
    /\ kmsPc = "done"
    /\ kmsOut.amended
    /\ SelectedIndex(kmsDoc0, kmsIn.sid_pattern) # 0
    /\ kmsDoc0.Statement[SelectedIndex(kmsDoc0, kmsIn.sid_pattern)].Principal.AWS.kind = "list"

\* C7: for all lists P (the principals of the selected statement) and Q (the
\* desired principals), after amend_kms_key_policy the statement's principal
\* list is sorted, its elements are those of P and of Q, and the count returned
\* is the number of distinct elements of Q that are not in P.
C7_AmendIsSortedUnion ==
    AmendedList =>
        LET i == SelectedIndex(kmsDoc0, kmsIn.sid_pattern)
            P == kmsDoc0.Statement[i].Principal.AWS.items
            Q == kmsIn.additional_roles
            after == kmsDoc.Statement[i].Principal.AWS
        IN /\ kmsOut.raised \in {"", "ClientError"}
           /\ after.kind = "list"
           /\ IsSorted(after.items)
           /\ Range(after.items) = Range(P) \cup Range(Q)
           /\ kmsOut.nadded = Cardinality(Range(Q) \ Range(P))

\* Principals <<2, 1>> were amended with a list that names a role twice and a
\* role already present: one was added.
C7_Witness ==
    /\ AmendedList
    /\ kmsIn.op = "amend"
    /\ kmsDoc0.Statement[SelectedIndex(kmsDoc0, kmsIn.sid_pattern)].Principal.AWS.items
          = <<2, 1>>
    /\ kmsIn.additional_roles \in {<<3, 3>>, <<2, 3>>}
    /\ kmsOut.nadded = 1

\* after differs from before at most in the principal list of the statement
\* selected in before, which lost no element.
Additive(before, after, sid_pattern) ==
    LET i == SelectedIndex(before, sid_pattern)
    IN /\ after.Version = before.Version
       /\ Len(after.Statement) = Len(before.Statement)
       /\ \A j \in 1..Len(before.Statement) :
             IF j = i /\ before.Statement[j].Principal.AWS.kind = "list"
             THEN /\ after.Statement[j].Sid = before.Statement[j].Sid
                  /\ after.Statement[j].Effect = before.Statement[j].Effect
                  /\ after.Statement[j].Action = before.Statement[j].Action
                  /\ after.Statement[j].Resource = before.Statement[j].Resource
                  /\ after.Statement[j].Principal.AWS.kind = "list"
                  /\ Range(before.Statement[j].Principal.AWS.items) \subseteq
                        Range(after.Statement[j].Principal.AWS.items)
             ELSE after.Statement[j] = before.Statement[j]

\* C8: neither amend_kms_key_policy (on the document it is given) nor the
\* update-kms-policy driver (on the stored policy) removes a principal of the
\* selected statement, and every other statement and every other field of the
\* policy document is the same before and after.
C8_AdditiveAndLocal ==
    /\ Additive(kmsDoc0, kmsDoc, SidPattern)
    /\ Additive(kmsDoc0, policy_loads(kmsPolicy), SidPattern)

\* The driver has written a policy with a role added to the first of two
\* statements whose Sid matches, after another statement.
C8_Witness ==
    /\ kmsPc = "done"
    /\ kmsIn.op = "driver"
    /\ kmsOut.puts = 1 /\ kmsOut.raised = ""
    /\ kmsOut.nadded > 0
    /\ Len(kmsDoc0.Statement) = 3
    /\ policy_loads(kmsPolicy) # kmsDoc0

DriverRan == kmsIn.op = "driver" /\ kmsPc \in {"confirm", "done"}

\* The Foursight roles of the account that the selected statement of the
\* fetched policy does not list.
MissingRoles ==
    LET i == SelectedIndex(kmsDoc0, SidPattern)
        desired == {iamRoles[k] : k \in {j \in 1..Len(iamRoles) : is_foursight(iamRoles[j])}}
    IN IF i = 0 THEN desired
       ELSE IF kmsDoc0.Statement[i].Principal.AWS.kind = "list"
       THEN desired \ Range(kmsDoc0.Statement[i].Principal.AWS.items)
       ELSE desired

DriverDeclined == kmsPc = "done" /\ kmsOut.asked /\ ~kmsOut.amended

Found == sgPc = "done" /\ sgIn.op = "find"

ExistingList == IF sgIn.existing = Nothing THEN <<>> ELSE sgIn.existing[1]

\* The desired rule has exactly one IpRanges entry, and the existing rule has
\* its protocol, ports and direction and the CIDR of that entry.
SameRule(existing_rule, desired, outbound) ==
    /\ desired.IpRanges # Nothing
    /\ Len(desired.IpRanges[1]) = 1
    /\ existing_rule.IpProtocol = desired.IpProtocol
    /\ existing_rule.FromPort = desired.FromPort
    /\ existing_rule.ToPort = desired.ToPort
    /\ existing_rule.IsEgress = Some(outbound)
    /\ existing_rule.CidrIpv4 = desired.IpRanges[1][1].CidrIp

\* A rule, existing or desired, with its descriptions blanked.
WithoutDescription(rule) ==
    IF "Description" \in DOMAIN rule THEN [rule EXCEPT !.Description = ""]
    ELSE IF rule.IpRanges = Nothing THEN rule
    ELSE [rule EXCEPT !.IpRanges =
            Some([i \in 1..Len(rule.IpRanges[1]) |->
                    [rule.IpRanges[1][i] EXCEPT !.Description = ""]])]

\* C9: find_security_group_rule returns the first existing rule that has the
\* desired rule's protocol and ports, the direction asked for and the CIDR of
\* the desired rule's single IpRanges entry, and None when there is none: for
\* an empty list, for None, and for a desired rule with no or several IpRanges
\* entries. The descriptions do not count, and the rule returned has the
\* direction asked for.
C9_FindReturnsFirstMatch ==
    Found =>
        LET desired == sgIn.rule[1]
            same(i) == SameRule(ExistingList[i], desired, sgIn.outbound)
        IN /\ sgOut.found \in 0..Len(ExistingList)
           /\ sgOut.found # 0 => same(sgOut.found)
           /\ \A i \in 1..Len(ExistingList) :
                 same(i) => sgOut.found # 0 /\ sgOut.found <= i
           /\ sgOut.found # 0 => ExistingList[sgOut.found].IsEgress = Some(sgIn.outbound)
           /\ sgOut.found =
                 find_security_group_rule(
                     IF sgIn.existing = Nothing THEN Nothing
                     ELSE Some([i \in 1..Len(ExistingList) |->
                                  WithoutDescription(ExistingList[i])]),
                     WithoutDescription(desired), sgIn.outbound)

\* The second of two rules is returned: the first differs in direction only,
\* the second has another description than the desired rule.
C9_Witness ==
    /\ Found
    /\ sgOut.found = 2
    /\ ExistingList[1] = [ExistingList[2] EXCEPT !.IsEgress = Some(~sgIn.outbound)]
    /\ ExistingList[2].Description # sgIn.rule[1].IpRanges[1][1].Description

Listed == sgPc = "done" /\ sgIn.op = "list"

GroupExists == sgGroups # Nothing

NoRuleInDirection ==
    \A i \in 1..Len(sgGroups[1]) : sgGroups[1][i].IsEgress # Some(sgIn.outbound)

\* C10 as claimed: get_security_group_rules returns the empty list for a group
\* that exists without a rule in the direction asked for, and None only when
\* the group cannot be found.
C10_EmptyListForGroupWithoutRules ==
    Listed =>
        /\ GroupExists /\ NoRuleInDirection => sgOut.rules = Some(<<>>)
        /\ sgOut.rules = Nothing => ~GroupExists

\* C10 as amended: get_security_group_rules returns None whenever there is no
\* rule of the group in the direction asked for, whether the group exists or
\* not, and never the empty list; otherwise it returns the group's rules of
\* that direction, in their order.
C10_NoneWithoutRules ==
    Listed =>
        /\ sgOut.rules # Some(<<>>)
        /\ (~GroupExists \/ NoRuleInDirection) <=> sgOut.rules = Nothing
        /\ sgOut.rules # Nothing =>
              /\ GroupExists
              /\ sgOut.rules[1] = rules_of_direction(sgGroups[1], sgIn.outbound)
              /\ \A i \in 1..Len(sgOut.rules[1]) :
                    sgOut.rules[1][i].IsEgress = Some(sgIn.outbound)

\* The outbound rules of a group with one inbound rule were listed: None.
C10_Witness ==
    /\ Listed
    /\ GroupExists
    /\ Len(sgGroups[1]) = 1
    /\ sgIn.outbound
    /\ sgGroups[1][1].IsEgress = Some(FALSE)
    /\ sgOut.rules = Nothing
\* ---- create_user_access_key

KeyCalled == keyPc \in {"existing", "create", "done"}

\* The prompts the call must have put, all answered yes, before it creates a
\* key pair: the first only for a user who had keys, then the second.
RequiredPrompts ==
    IF keyIn.existing_keys > 0 THEN <<StillCreatePrompt, CreatePrompt>>
    ELSE <<CreatePrompt>>

KeyDeclined ==
    /\ keyPc = "done"
    /\ keyOut.answers # <<>>
    /\ keyOut.answers[Len(keyOut.answers)] = "no"

\* C11: a call creates at most one key pair, and only after it asked, in this
\* order, "Do you still want to create a new access key?" (for a user who had
\* keys) and the confirmation of the creation, each answered yes. The second
\* question is never put before the first. A call in which either was declined
\* has returned None, None, created nothing and raised nothing.
C11_CreatesOnlyAfterConfirmations ==
    KeyCalled =>
        /\ keyOut.created <= 1
        /\ keyOut.created = 1 =>
              /\ keyOut.prompts = RequiredPrompts
              /\ \A i \in 1..Len(keyOut.answers) : keyOut.answers[i] = "yes"
              /\ keyOut.result = "key pair"
        /\ \E n \in 0..Len(RequiredPrompts) :
              keyOut.prompts = SubSeq(RequiredPrompts, 1, n)
        /\ KeyDeclined =>
              /\ keyOut.result = "None, None"
              /\ keyOut.created = 0
              /\ iamKeys[keyIn.user] = keyIn.existing_keys

\* A user with one key got a second one after both questions.
C11_Witness ==
    /\ keyPc = "done"
    /\ keyIn.existing_keys = 1
    /\ keyOut.created = 1
    /\ keyOut.prompts = <<StillCreatePrompt, CreatePrompt>>
    /\ iamKeys[keyIn.user] = 2

\* The users of exactly the name the call was given.
ExactMatches == {i \in 1..Len(iamUsers) : iamUsers[i] = keyIn.user_name}

\* C12: a call for a name that no user or more than one user bears exactly
\* asks nothing and creates nothing, and returns None, None once its scope is
\* established; with exactly one such user, that user is the one resolved.
C12_UnresolvedNameChangesNothing ==
    KeyCalled =>
        /\ Cardinality(ExactMatches) # 1 =>
              /\ keyPc = "done"
              /\ keyOut.prompts = <<>>
              /\ keyOut.created = 0
              /\ keyIn.user = 0
              /\ (keyOut.scope => keyOut.result = "None, None")
        /\ Cardinality(ExactMatches) = 1 => keyIn.user \in ExactMatches

\* Two users bear the name; the call has returned None, None.
C12_Witness ==
    /\ keyPc = "done"
    /\ Cardinality(ExactMatches) = 2
    /\ keyOut.scope
    /\ keyOut.result = "None, None"
    /\ \E i \in ExactMatches : iamKeys[i] = 0

\* ---- two AwsContext objects in one process

\* C15: each AwsContext object resets the default session of the process in
\* its first call of establish_credentials and in no later call, whatever the
\* other object does and however the calls of the two interleave; an object
\* that was not called has not reset it.
C15_DefaultSessionResetOncePerInstance ==
    \A i \in DOMAIN procCalls :
        /\ procResets[i] = IF procCalls[i] = 0 THEN <<>> ELSE <<1>>
        /\ procCtx[i].reset_boto3_default_session <=> procCalls[i] = 0

\* One object was called twice and the other once; the default session, reset
\* by each in its first call, has been created again since.
C15_Witness ==
    /\ \E i \in DOMAIN procCalls :
          /\ procCalls[i] = 2
          /\ \E j \in DOMAIN procCalls \ {i} : procCalls[j] = 1 /\ procResets[j] = <<1>>
    /\ procDefault = "scoped"

ScopeActive(i) == procPc[i] \in {"session", "body"}

\* C16 as claimed: outside an active scope nothing holds the Credentials of a
\* scope: neither the object of the scope nor its caller.
C16_CredentialsGoneAfterExit ==
    \A i \in DOMAIN procPc :
        ~ScopeActive(i) => procYield[i] = Nothing /\ procHeld[i] = Nothing

\* C16 as amended: the Credentials object that establish_credentials yields is
\* made on entry, and the exit of the scope discards only the generator's own
\* reference. An object whose credentials attribute was assigned in a scope
\* (validate_and_get_aws_credentials) holds the access key id, the secret
\* access key, the account number and the caller ARN from then on, after the
\* exit of that scope too; the environment alone is restored.
C16_KeptCredentialsOutliveScope ==
    \A i \in DOMAIN procPc :
        /\ ~ScopeActive(i) => procYield[i] = Nothing
        /\ procYield[i] # Nothing => procPc[i] = "body"
        /\ procKeptAt[i] = 0 <=> procHeld[i] = Nothing
        /\ procKeptAt[i] # 0 =>
              /\ Truthy(procHeld[i][1].access_key_id)
              /\ Truthy(procHeld[i][1].secret_access_key)
              /\ Truthy(procHeld[i][1].account_number)
              /\ Truthy(procHeld[i][1].user_arn)

\* The only scope of an object has exited and the environment is the ambient
\* one again, while the object holds the key pair of the scope.
C16_Witness ==
    \E i \in DOMAIN procPc :
        /\ procPc[i] = "exited"
        /\ procCalls = [j \in DOMAIN procPc |-> IF j = i THEN 1 ELSE 0]
        /\ procEnviron = procAmbient
        /\ procHeld[i] # Nothing
        /\ procHeld[i][1].access_key_id = "AKIAEXAMPLE"

\* The environment a context establishes, which does not depend on the
\* environment it starts from.
ScopeEnviron(i) == established_environ(procCtx[i], ProcDirs, ProcFiles, AllUnset).environ

\* C17: two contexts used by two threads without serialization interfere.
\* Every scope restores on exit what the environment was when it was entered,
\* whoever had set it: so the environment is always the ambient one or the
\* scope environment of one context, the one named by procOwner. While both
\* scopes are active it is the later entrant's, so the thread that entered
\* first runs on the other context's variables; and whenever it is a context's
\* after the scopes have exited, it is not the ambient one.
C17_UnserializedScopesInterfere ==
    /\ procEnviron = IF procOwner = None THEN procAmbient ELSE ScopeEnviron(procOwner)
    /\ procOwner # None => procEnviron # procAmbient
    /\ Len(procActive) = 2 =>
          /\ procOwner = procActive[2]
          /\ procCtx[procActive[1]].aws_credentials_dir # procCtx[procActive[2]].aws_credentials_dir
                => procEnviron # ScopeEnviron(procActive[1])

\* Both threads have left their only scope, the key-material context first
\* though it entered first, and its key pair is still in the environment,
\* which was empty before.
C17_Witness ==
    /\ procActive = <<>>
    /\ \A i \in DOMAIN procPc : procPc[i] = "exited" /\ procCalls[i] = 1
    /\ procOwner # None
    /\ procEnviron["AWS_ACCESS_KEY_ID"] = "AKIAEXAMPLE"
    /\ procAmbient["AWS_ACCESS_KEY_ID"] = None

(***************************************************************************)
(*                        the display functions                            *)
(***************************************************************************)

Applied(fn) == dispPc = "done" /\ dispIn.fn = fn

\* The value is shown as asterisks, one for each of its characters.
Masked(value, shown) == shown = Stars(Len(value)) /\ shown # value

\* print_secret was given a value of a key that looks sensitive.
SensitiveSecretDisplayed ==
    /\ Applied("print_secret")
    /\ Truthy(dispIn.key_value)
    /\ Sensitive[dispIn.key_name]

\* C21, as stated: in the display paths of update_secret_key_value,
\* create_user_access_key and establish_credentials(display=True) a sensitive
\* value is shown masked unless the caller passed show = True.
C21_MaskedUnlessShow ==
    /\ SensitiveSecretDisplayed /\ ~dispIn.show
          => Masked(dispIn.key_value, dispOut.shown)
    /\ Applied("create_user_access_key") /\ ~dispIn.show
          => Masked(dispIn.key_pair.secret, dispOut.secret)
    /\ Applied("establish_credentials") /\ ~dispIn.show
          => Masked(dispIn.credentials.secret_access_key, dispOut.secret_access_key)

\* C21, amended: the created and the established secret access key are masked
\* unless show = True; a sensitive secret value is masked unless show = True
\* or the operator answered yes to "Show in plaintext?", which print_secret
\* asks whenever show is False, and after which it prints the value in
\* plaintext.
C21_MaskedUnlessShowOrOperatorAsks ==
    /\ SensitiveSecretDisplayed /\ ~dispIn.show
          => /\ dispOut.asked
             /\ IF dispIn.answer = "yes" THEN dispOut.shown = dispIn.key_value
                ELSE Masked(dispIn.key_value, dispOut.shown)
    /\ SensitiveSecretDisplayed /\ dispIn.show
          => ~dispOut.asked /\ dispOut.shown = dispIn.key_value
    /\ Applied("create_user_access_key")
          => IF dispIn.show THEN dispOut.secret = dispIn.key_pair.secret
             ELSE Masked(dispIn.key_pair.secret, dispOut.secret)
    /\ Applied("establish_credentials")
          => IF dispIn.show
             THEN dispOut.secret_access_key = dispIn.credentials.secret_access_key
             ELSE Masked(dispIn.credentials.secret_access_key, dispOut.secret_access_key)

\* A sensitive value was displayed without show, the operator declined the
\* plaintext, and asterisks were printed.
C21_Witness ==
    /\ SensitiveSecretDisplayed
    /\ ~dispIn.show
    /\ dispIn.answer = "no"
    /\ dispOut.asked
    /\ dispOut.shown = "******"

\* The pieces of a key name: the words of the heuristic, and the ending.
StatedWords == {"secret", "PASSWORD", "passwd", "Crypt"}
AlwaysSensitiveWords == {"secret", "secrt", "PASSWORD", "passwd"}
KeyIdEndings == {"_key_id", "_KEY_ID"}

\* The name ends in "crypt_key_id", whatever the case.
EndsInCryptKeyId(segments) ==
    /\ Len(segments) >= 2
    /\ segments[Len(segments) - 1] = "Crypt"
    /\ segments[Len(segments)] \in KeyIdEndings

\* C22, as stated: should_obfuscate(key) is true when the key contains
\* "secret", "password", "passwd" or "crypt" in any case, except that for every
\* name ending in "crypt_key_id" it is false.
C22_SensitiveUnlessEndsInCryptKeyId ==
    Applied("should_obfuscate") =>
        /\ EndsInCryptKeyId(dispIn.segments) => ~dispOut.result
        /\ /\ \E i \in 1..Len(dispIn.segments) : dispIn.segments[i] \in StatedWords
           /\ ~EndsInCryptKeyId(dispIn.segments)
           => dispOut.result

\* C22, amended: should_obfuscate(key) is true exactly when the key contains,
\* in any case, "secret", "secrt", "password" or "passwd", or an occurrence of
\* "crypt" other than one followed by "_key_id" at the very end of the name.
C22_SensitiveUnlessOnlyCryptKeyId ==
    Applied("should_obfuscate") =>
        dispOut.result =
            (\E i \in 1..Len(dispIn.segments) :
                \/ dispIn.segments[i] \in AlwaysSensitiveWords
                \/ /\ dispIn.segments[i] = "Crypt"
                   /\ ~(i = Len(dispIn.segments) - 1 /\ EndsInCryptKeyId(dispIn.segments)))

\* should_obfuscate("s3.enCrypt_key_id") was found false.
C22_Witness ==
    /\ Applied("should_obfuscate")
    /\ dispIn.segments = <<"s3.en", "Crypt", "_key_id">>
    /\ dispIn.key = "s3.enCrypt_key_id"
    /\ dispOut.result = FALSE

\* The rule is none of SSH, HTTP, HTTPS and the ICMP rules with ToPort -1.
GenericRule(rule) ==
    /\ ~(rule.IpProtocol = "tcp" /\ rule.FromPort = rule.ToPort
         /\ rule.FromPort \in {Some(22), Some(80), Some(443)})
    /\ ~(rule.IpProtocol = "icmp" /\ rule.ToPort = Some(-1))

NegativeOrAbsent(port) == port = Nothing \/ port[1] < 0

\* C23, as stated: for a rule that is not special-cased the port range is
\* "N/A" when FromPort or ToPort is negative or absent, the single number when
\* FromPort = ToPort, and "<from> - <to>" otherwise.
C23_PortRangeOfGenericRule ==
    Applied("get_security_group_rule_display_value") /\ GenericRule(dispIn.rule) =>
        LET from_port == dispIn.rule.FromPort
            to_port == dispIn.rule.ToPort
        IN /\ ~dispOut.raised
           /\ dispOut.range =
                 IF NegativeOrAbsent(from_port) \/ NegativeOrAbsent(to_port) THEN "N/A"
                 ELSE IF from_port = to_port THEN format_port(from_port[1])
                 ELSE format_port(from_port[1]) \o " - " \o format_port(to_port[1])

\* A rule without ToPort was displayed and the function raised.
C23_Witness ==
    /\ Applied("get_security_group_rule_display_value")
    /\ dispIn.rule.IpProtocol = "udp"
    /\ dispIn.rule.FromPort = Some(22)
    /\ dispIn.rule.ToPort = Nothing
    /\ dispOut.raised

(***************************************************************************)
(*               update_secret_key_value and a second writer               *)
(***************************************************************************)

\* Another client wrote the secret after the call fetched it.
ExternalChange == secTrace.external # NoSecrets

\* The record the other client stored.
ExternalRecord == json_loads(secTrace.external[secArgs.name])

\* C24: update_secret_key_value has no optimistic concurrency control: when
\* another writer changes the record between the fetch and the write, the
\* write is still issued and succeeds, the stored record is the fetched record
\* with the one key changed, and the other writer's change to any other key is
\* gone.
C24_WriteOverwritesExternalChange ==
    /\ secPc = "done" /\ ExternalChange /\ secTrace.answer = "yes"
          => secTrace.writes = 1
    /\ Returned("True")
          => /\ StoredRecord = dict_set(secLocal.fetched, secArgs.key, secLocal.value)
             /\ \A key \in SecretKeys :
                   key # secArgs.key
                      => dict_get(StoredRecord, key) = dict_get(secLocal.fetched, key)

\* The other client set a key the call does not name, the call returned True,
\* and the stored record has the fetched value of that key again.
C24_Witness ==
    /\ Returned("True")
    /\ ExternalChange
    /\ \E key \in SecretKeys :
          /\ key # secArgs.key
          /\ dict_get(ExternalRecord, key) = "external.db"
          /\ dict_get(StoredRecord, key) # "external.db"
          /\ dict_get(StoredRecord, key) = dict_get(secLocal.fetched, key)

(***************************************************************************)
(*                   the operations of one Aws object                      *)
(***************************************************************************)

\* The environment the object's scope sets up from the ambient one.
OpScopeEnviron == established_environ(opCtx, ProcDirs, ProcFiles, opAmbient).environ

\* C25: every remote call of an operation of the Aws class is issued while a
\* credential scope established by the same object is active, and when the
\* operation has returned or raised no scope is active and the process
\* environment is what it was before the operation.
C25_RemoteCallsInsideScope ==
    /\ \A k \in 1..Len(opLog) :
          /\ opLog[k].scope = 1
          /\ opLog[k].environ = OpScopeEnviron
    /\ opPc \in {"done", "idle"}
          => /\ opScope = 0
             /\ opSaved = NoSaved
             /\ opEnviron = opAmbient

\* An operation issued two remote calls from an environment that had ambient
\* credentials, the second call raised, and the environment is restored.
C25_Witness ==
    /\ opPc = "done"
    /\ opOut = "raised"
    /\ Len(opLog) = 2
    /\ opLog[2].environ # opAmbient
    /\ opAmbient["AWS_ACCESS_KEY_ID"] = "ambient"
    /\ opEnviron = opAmbient

(***************************************************************************)
(*            KMS key policy: several or no matching statements            *)
(***************************************************************************)

\* The statements of the document given whose Sid matches the pattern.
MatchingStatements ==
    {i \in 1..Len(kmsDoc0.Statement) :
        StartsWith(kmsDoc0.Statement[i].Sid, kmsIn.sid_pattern)}

Amended == kmsPc = "done" /\ kmsOut.amended

\* C26: when several statements match the Sid pattern,
\* get_kms_key_policy_principals returns the principal list of the first of
\* them and amend_kms_key_policy changes that list only: the later matching
\* statements are as they were.
C26_FirstMatchWins ==
    Amended /\ Cardinality(MatchingStatements) >= 2 =>
        LET first == CHOOSE i \in MatchingStatements :
                        \A j \in MatchingStatements : i <= j
        IN /\ get_kms_key_policy_principals(kmsDoc0, kmsIn.sid_pattern)
                 = kmsDoc0.Statement[first].Principal.AWS
           /\ \A j \in 1..Len(kmsDoc0.Statement) :
                 j # first => kmsDoc.Statement[j] = kmsDoc0.Statement[j]
           /\ kmsOut.nadded > 0 =>
                 /\ kmsDoc.Statement[first] # kmsDoc0.Statement[first]
                 /\ Cardinality(Range(kmsDoc.Statement[first].Principal.AWS.items))
                       = Cardinality(Range(kmsDoc0.Statement[first].Principal.AWS.items))
                            + kmsOut.nadded

\* The second and the third statement match; a role was added to the second
\* and the third is as it was.
C26_Witness ==
    /\ Amended
    /\ kmsIn.op = "amend"
    /\ MatchingStatements = {2, 3}
    /\ kmsOut.nadded = 1
    /\ kmsDoc.Statement[2] # kmsDoc0.Statement[2]
    /\ kmsDoc.Statement[3] = kmsDoc0.Statement[3]

\* C30: when no statement's Sid matches the pattern, amend_kms_key_policy does
\* not return a count: it fails with an error, and the document is left as it
\* was passed in.
C30_NoMatchFails ==
    Amended /\ kmsIn.op = "amend" /\ MatchingStatements = {} =>
        /\ kmsOut.raised \in {"TypeError", "AttributeError"}
        /\ kmsOut.nadded = 0
        /\ kmsDoc = kmsDoc0
        /\ policy_loads(kmsPolicy) = kmsDoc0

\* A document without a matching statement was amended with two roles, and
\* the call raised.
C30_Witness ==
    /\ Amended
    /\ kmsIn.op = "amend"
    /\ MatchingStatements = {}
    /\ Len(kmsDoc0.Statement) = 2
    /\ Len(kmsIn.additional_roles) = 2
    /\ kmsOut.raised = "TypeError"
    /\ kmsDoc = kmsDoc0

(***************************************************************************)
(*                   scopes nested in one thread                           *)
(***************************************************************************)

\* The environment the scope of object i sets up.
NestScopeEnviron(i) ==
    established_environ(nestCtx[i], ProcDirs, ProcFiles, AllUnset).environ

\* C27: properly nested scopes unwind correctly. Inside the innermost scope
\* the seven variables are those of its object; after an inner scope (of the
\* same or of another AwsContext) has exited they are exactly the enclosing
\* scope's; after the outermost scope has exited they are the ambient ones.
C27_NestedScopesUnwind ==
    nestEnviron = IF nestStack = <<>> THEN nestAmbient
                  ELSE NestScopeEnviron(nestStack[Len(nestStack)].object)

\* The scope of b, entered inside the scope of a, has exited: the environment,
\* which held ambient credentials before, is that of the scope of a and differs
\* from that of b.
C27_Witness ==
    /\ Len(nestStack) = 1
    /\ nestStack[1].object = "a"
    /\ nestLeft = "b"
    /\ nestAmbient["AWS_ACCESS_KEY_ID"] = "ambient"
    /\ nestEnviron = NestScopeEnviron("a")
    /\ nestEnviron # NestScopeEnviron("b")
    /\ nestEnviron # nestAmbient

(***************************************************************************)
(*             session token and AWS_REGION inside the scope               *)
(***************************************************************************)

CompleteKeyPair == Truthy(self.aws_access_key_id) /\ Truthy(self.aws_secret_access_key)

\* C28: inside the scope AWS_SESSION_TOKEN is set only when the context has
\* no complete key/secret pair (and then to the token supplied); with both
\* the key id and the secret supplied it is unset even if a token was
\* supplied; AWS_REGION is unset inside every scope.
C28_TokenOnlyWithoutKeyPair ==
    InScope =>
        /\ environ["AWS_REGION"] = None
        /\ environ["AWS_SESSION_TOKEN"] # None
              => ~CompleteKeyPair /\ environ["AWS_SESSION_TOKEN"] = self.aws_session_token
        /\ CompleteKeyPair => environ["AWS_SESSION_TOKEN"] = None
        /\ ~CompleteKeyPair /\ Truthy(self.aws_session_token)
              => environ["AWS_SESSION_TOKEN"] = self.aws_session_token

\* A context made with a key pair and a session token runs its body, entered
\* with AWS_REGION and AWS_SESSION_TOKEN set: both are unset.
C28_Witness ==
    /\ ctxPc = "body" /\ ~bodyWrote
    /\ CompleteKeyPair
    /\ self.aws_session_token = "session-token"
    /\ environ0["AWS_REGION"] = "ambient"
    /\ environ0["AWS_SESSION_TOKEN"] = "ambient"
    /\ environ["AWS_SESSION_TOKEN"] = None
    /\ environ["AWS_REGION"] = None
    /\ environ["AWS_ACCESS_KEY_ID"] = self.aws_access_key_id

(***************************************************************************)
(*                 the keys of a secret over a run of calls                *)
(***************************************************************************)

\* The keys of the record stored under a name, before and after a step.
KeysOf(store, name) == Range(json_loads(store[name]).keys)

\* C29: over any sequence of update_secret_key_value calls the key set of a
\* secret record never loses a key: no step removes a secret or an entry of
\* its record, and a deactivation stores the old value of the key behind the
\* prefix "DEACTIVATED:".
C29_KeysNeverRemoved ==
    [][/\ DOMAIN secretStore \subseteq DOMAIN secretStore'
       /\ \A name \in DOMAIN secretStore :
             /\ KeysOf(secretStore, name) \subseteq KeysOf(secretStore', name)
             /\ secretStore'[name] # secretStore[name] /\ secLocal.action = "deactivate"
                   => dict_get(json_loads(secretStore'[name]), secArgs.key)
                         = DEACTIVATED_SECRET_VALUE_PREFIX
                              \o dict_get(json_loads(secretStore[name]), secArgs.key)]_vars

\* A deactivation of one of the two keys of a record has returned True: the
\* record still has both keys, and an earlier call had succeeded as well.
C29_Witness ==
    /\ Returned("True")
    /\ secLocal.action = "deactivate"
    /\ secPrev # NoPrev
    /\ Cardinality(Range(StoredRecord.keys)) = 2
    /\ StartsWith(dict_get(StoredRecord, secArgs.key), DEACTIVATED_SECRET_VALUE_PREFIX)

====
